---------------------------- MODULE Spec2Model ----------------------------
(***************************************************************************)
(* The in-process performance layer of src/utils/performance.js:           *)
(* ConnectionPool, Cache, RequestBatcher, PerformanceMonitor and the        *)
(* withPerformanceMonitoring wrapper; and the HealthChecker of              *)
(* src/utils/monitoring.js.                                                 *)
(*                                                                          *)
(* JavaScript objects are modelled by reference: a connection is its index  *)
(* in `connections`, a request its index in `requests`.  A JavaScript Map   *)
(* is a sequence of <<key, value>> pairs in insertion order (the order its  *)
(* iterator follows).  Date.now() is the variable `now`; one synchronous    *)
(* section reads one clock value.  null is Null.                            *)
(***************************************************************************)
EXTENDS Integers, Sequences, FiniteSets, TLC

VARIABLES
  now,                    \* Date.now()
  \* ---- ConnectionPool (performance.js 20-116)
  endpoints,              \* this.endpoints
  maxConnections,         \* this.maxConnections
  connections,            \* this.connections
  availableConnections,   \* this.availableConnections (array of references)
  busyConnections,        \* this.busyConnections (Set of references)
  poolCall,               \* the last pool call and what it returned
  markedUnhealthy,        \* history: references markUnhealthy was called on
  releasedUnhealthy,      \* history: references released after being marked
  \* ---- Cache (performance.js 122-242)
  maxSize,                \* this.maxSize
  defaultTTL,             \* this.defaultTTL
  cache,                  \* this.cache            Map key -> value
  accessTimes,            \* this.accessTimes      Map key -> last access
  expirationTimes,        \* this.expirationTimes  Map key -> expiry
  cacheCall,              \* the last Cache call, what it returned and
                          \* what it met expired
  \* ---- RequestBatcher (performance.js 248-314)
  batchSize,              \* this.batchSize
  batchTimeout,           \* this.batchTimeout
  pendingRequests,        \* this.pendingRequests (array of request references)
  batchTimer,             \* this.batchTimer: a timer handle or null
  timers,                 \* the event loop's armed timers: [id, due]
  requests,               \* every request passed to addRequest, by reference,
                          \* with how often its operation was invoked
  batches,                \* every batch processBatch has taken
  batCall,                \* the last batcher entry point that ran
  \* ---- PerformanceMonitor (performance.js 320-434)
  metrics,                \* this.metrics
  responseTimes,          \* this.responseTimes
  monCall,                \* the last monitor call: its argument, what it
                          \* returned and how many samples it removed
  \* ---- withPerformanceMonitoring (performance.js 440-482)
  calls,                  \* every invocation of a wrapped function
  \* ---- HealthChecker (monitoring.js 21-175)
  checks,                 \* this.checks          Map name -> check
  status,                 \* this.status
  runs,                   \* every invocation of runCheck
  sweeps                  \* every invocation of runAllChecks

poolVars == <<endpoints, maxConnections, connections, availableConnections,
              busyConnections, poolCall, markedUnhealthy, releasedUnhealthy>>

cacheVars == <<maxSize, defaultTTL, cache, accessTimes, expirationTimes,
               cacheCall>>

batVars == <<batchSize, batchTimeout, pendingRequests, batchTimer, timers,
             requests, batches, batCall>>

monVars == <<metrics, responseTimes, monCall>>

wrapVars == <<calls>>

healthVars == <<checks, status, runs, sweeps>>

vars == <<now, poolVars, cacheVars, batVars, monVars, wrapVars, healthVars>>

-----------------------------------------------------------------------------
(* Bounds of the model *)

MaxTime == 2        \* last clock reading of the pool, batcher and wrapper runs
MaxCacheTime == 1   \* last clock reading of the cache runs
MaxEndpoints == 3   \* longest endpoint list
MaxPoolSize == 3    \* largest maxConnections
MaxCacheSize == 2   \* largest maxSize
MaxTTL == 1         \* the cache's defaultTTL, in clock units
MaxBatchSize == 3   \* largest batchSize
MaxBatchTimeout == 2 \* largest batchTimeout, in clock units
MaxRequests == 3    \* addRequest calls in one run
MaxSamples == 3     \* recordRequest calls in one monitor run
MaxLatency == 2     \* largest response time recorded in a monitor run
MaxCalls == 2       \* invocations of wrapped functions in one run
MaxHealthTime == 1  \* last clock reading of the health checker runs
MaxCheckTimeout == 1 \* largest timeout of a health check, in clock units
MaxChecks == 1      \* health checks registered in one run
MaxCheckRuns == 1   \* runCheck invocations in one run
MaxSweeps == 1      \* runAllChecks invocations in one run

-----------------------------------------------------------------------------
(* Common helpers *)

\* null: no connection reference, no cached value, no timer handle.
Null == -1

Min(a, b) == IF a < b THEN a ELSE b

Range(s) == {s[i] : i \in DOMAIN s}

\* Array.prototype.indexOf: the first position of x in s, 0 when absent
\* (JavaScript's -1).
IndexOf(s, x) ==
  IF \E i \in DOMAIN s : s[i] = x
  THEN CHOOSE i \in DOMAIN s : s[i] = x /\ \A j \in 1..(i - 1) : s[j] # x
  ELSE 0

\* Array.prototype.splice(index, 1) for a 1-based position i of s.
SpliceOne(s, i) == [j \in 1..(Len(s) - 1) |-> IF j < i THEN s[j] ELSE s[j + 1]]

\* How many times x occurs in s.
Occurrences(s, x) == Cardinality({i \in DOMAIN s : s[i] = x})

\* The clock advances between synchronous sections.
Tick(limit) ==
  /\ now < limit
  /\ now' = now + 1

-----------------------------------------------------------------------------
(* ConnectionPool *)

EndpointNames == <<"e1", "e2", "e3", "e4", "e5", "e6">>

\* constructor(endpoints, maxConnections)
ConnectionPool_constructor(eps, maxConns) ==
  /\ endpoints = eps
  /\ maxConnections = maxConns
  /\ connections = <<>>
  /\ availableConnections = <<>>
  /\ busyConnections = {}
  /\ poolCall = [op |-> "constructor", arg |-> Null, ret |-> Null]
  /\ markedUnhealthy = {}
  /\ releasedUnhealthy = {}

\* The connection object the loop of initialize builds for loop index i.
NewConnection(i) ==
  [id |-> i,
   endpoint |-> endpoints[(i % Len(endpoints)) + 1],
   lastUsed |-> now,
   requestCount |-> 0,
   isHealthy |-> TRUE]

\* An initialize that fills every slot, going round the endpoints.
InitializeEverySlot ==
  LET n == maxConnections
      base == Len(connections)
  IN /\ connections' = connections \o [k \in 1..n |-> NewConnection(k - 1)]
     /\ availableConnections' = availableConnections \o [k \in 1..n |-> base + k]
     /\ poolCall' = [op |-> "initialize", arg |-> Null, ret |-> Null]
     /\ UNCHANGED <<endpoints, maxConnections, busyConnections,
                    markedUnhealthy, releasedUnhealthy>>

\* initialize(): pushes min(maxConnections, endpoints.length) new objects on
\* connections and on availableConnections.
ConnectionPool_initialize ==
  LET n == Min(maxConnections, Len(endpoints))
      base == Len(connections)
  IN /\ connections' = connections \o [k \in 1..n |-> NewConnection(k - 1)]
     /\ availableConnections' = availableConnections \o [k \in 1..n |-> base + k]
     /\ poolCall' = [op |-> "initialize", arg |-> Null, ret |-> Null]
     /\ UNCHANGED <<endpoints, maxConnections, busyConnections,
                    markedUnhealthy, releasedUnhealthy>>

\* A getConnection that hands out the head of the available list and
\* leaves it on the list.
GetConnectionKeepsAvailable ==
  /\ IF Len(availableConnections) = 0
     THEN /\ poolCall' = [op |-> "getConnection", arg |-> Null, ret |-> Null]
          /\ UNCHANGED <<connections, availableConnections, busyConnections>>
     ELSE LET connection == Head(availableConnections)
          IN /\ availableConnections' = availableConnections
             /\ busyConnections' = busyConnections \cup {connection}
             /\ connections' = [connections EXCEPT ![connection].lastUsed = now]
             /\ poolCall' = [op |-> "getConnection", arg |-> Null,
                             ret |-> connection]
  /\ UNCHANGED <<endpoints, maxConnections, markedUnhealthy, releasedUnhealthy>>

\* getConnection(): null when nothing is available, else the shifted head.
ConnectionPool_getConnection ==
  /\ IF Len(availableConnections) = 0
     THEN /\ poolCall' = [op |-> "getConnection", arg |-> Null, ret |-> Null]
          /\ UNCHANGED <<connections, availableConnections, busyConnections>>
     ELSE LET connection == Head(availableConnections)
          IN /\ availableConnections' = Tail(availableConnections)
             /\ busyConnections' = busyConnections \cup {connection}
             /\ connections' = [connections EXCEPT ![connection].lastUsed = now]
             /\ poolCall' = [op |-> "getConnection", arg |-> Null,
                             ret |-> connection]
  /\ UNCHANGED <<endpoints, maxConnections, markedUnhealthy, releasedUnhealthy>>

\* A release that takes the connection out of the busy set and forgets it.
ReleaseDropsConnection(connection) ==
  /\ busyConnections' = busyConnections \ {connection}
  /\ UNCHANGED availableConnections

\* A release that skips the busyConnections.has test.
ReleaseUnchecked(connection) ==
  /\ busyConnections' = busyConnections \ {connection}
  /\ availableConnections' = Append(availableConnections, connection)

\* The body of releaseConnection(connection).
ReleaseEffect(connection) ==
  IF connection \in busyConnections
  THEN /\ busyConnections' = busyConnections \ {connection}
       /\ availableConnections' = Append(availableConnections, connection)
  ELSE UNCHANGED <<busyConnections, availableConnections>>

\* releaseConnection(connection)
ConnectionPool_releaseConnection(connection) ==
  /\ ReleaseEffect(connection)
  /\ poolCall' = [op |-> "releaseConnection", arg |-> connection, ret |-> Null]
  /\ releasedUnhealthy' =
       IF connection \in markedUnhealthy
       THEN releasedUnhealthy \cup {connection}
       ELSE releasedUnhealthy
  /\ UNCHANGED <<endpoints, maxConnections, connections, markedUnhealthy>>

\* A markUnhealthy that forgets the available list.
MarkEffectKeepsAvailable(connection) ==
  /\ connections' = [connections EXCEPT ![connection].isHealthy = FALSE]
  /\ busyConnections' = busyConnections \ {connection}
  /\ UNCHANGED availableConnections

\* The body of markUnhealthy(connection).
MarkEffect(connection) ==
  /\ connections' = [connections EXCEPT ![connection].isHealthy = FALSE]
  /\ busyConnections' = busyConnections \ {connection}
  /\ LET index == IndexOf(availableConnections, connection)
     IN availableConnections' =
          IF index > 0 THEN SpliceOne(availableConnections, index)
          ELSE availableConnections

\* markUnhealthy(connection)
ConnectionPool_markUnhealthy(connection) ==
  /\ MarkEffect(connection)
  /\ poolCall' = [op |-> "markUnhealthy", arg |-> connection, ret |-> Null]
  /\ markedUnhealthy' = markedUnhealthy \cup {connection}
  /\ UNCHANGED <<endpoints, maxConnections, releasedUnhealthy>>

\* Statistics that count a connection as unhealthy once it was marked and
\* released afterwards.
StatsOfReleased ==
  [totalConnections |-> Len(connections),
   availableConnections |-> Len(availableConnections),
   busyConnections |-> Cardinality(busyConnections),
   unhealthyConnections |-> Cardinality(releasedUnhealthy)]

\* The object getStats() returns (its constant `stats` member left out).
ConnectionPool_getStats ==
  [totalConnections |-> Len(connections),
   availableConnections |-> Len(availableConnections),
   busyConnections |-> Cardinality(busyConnections),
   unhealthyConnections |->
     Cardinality({c \in DOMAIN connections : ~connections[c].isHealthy})]

\* A call of getStats().
ConnectionPool_getStatsCall ==
  /\ poolCall' = [op |-> "getStats", arg |-> Null, ret |-> ConnectionPool_getStats]
  /\ UNCHANGED <<endpoints, maxConnections, connections, availableConnections,
                 busyConnections, markedUnhealthy, releasedUnhealthy>>

-----------------------------------------------------------------------------
(* JavaScript Map, as a sequence of <<key, value>> pairs in insertion order *)

MapHas(m, k) == \E i \in DOMAIN m : m[i][1] = k

MapGet(m, k) == m[CHOOSE i \in DOMAIN m : m[i][1] = k][2]

\* A store that adds a pair whether or not the key is present.
MapSetAppends(m, k, v) == Append(m, <<k, v>>)

\* Map.prototype.set: an existing key keeps its place, a new key goes last.
MapSet(m, k, v) ==
  IF MapHas(m, k)
  THEN [i \in DOMAIN m |-> IF m[i][1] = k THEN <<k, v>> ELSE m[i]]
  ELSE Append(m, <<k, v>>)

\* Map.prototype.delete
MapDelete(m, k) ==
  IF MapHas(m, k)
  THEN SpliceOne(m, CHOOSE i \in DOMAIN m : m[i][1] = k)
  ELSE m

MapKeys(m) == {m[i][1] : i \in DOMAIN m}

-----------------------------------------------------------------------------
(* Cache *)

\* Cache keys are strings; the empty string is one of them.
CacheKeys == {"", "a", "b"}

\* `let oldestKey = null` of evictLRU: no key.
NoKey == "<null>"

\* Cached values are opaque to the cache; 0 stands for JavaScript's falsy
\* values (0, false, ''), 1 for the truthy ones.
Values == {0, 1}

\* The ttl argument of set: an explicit 0, or left out (this.defaultTTL).
TTLs == {0, defaultTTL}

\* JavaScript truthiness of a value or of null.
Truthy(v) == v # Null /\ v # 0

\* JavaScript truthiness of a string key or of null.
TruthyKey(k) == k # NoKey /\ k # ""

\* constructor(maxSize, defaultTTL)
Cache_constructor(size, ttl) ==
  /\ maxSize = size
  /\ defaultTTL = ttl
  /\ cache = <<>>
  /\ accessTimes = <<>>
  /\ expirationTimes = <<>>
  /\ cacheCall = [op |-> "constructor", key |-> NoKey, value |-> Null,
                  ttl |-> Null, ret |-> Null, expired |-> FALSE]

\* The for-loop of evictLRU from position i on: the first entry whose access
\* time is strictly below every earlier one and below the starting Date.now().
RECURSIVE EvictScan(_, _, _, _)
EvictScan(times, i, oldestKey, oldestTime) ==
  IF i > Len(times) THEN oldestKey
  ELSE IF times[i][2] < oldestTime
       THEN EvictScan(times, i + 1, times[i][1], times[i][2])
       ELSE EvictScan(times, i + 1, oldestKey, oldestTime)

\* The key evictLRU deletes, NoKey when `if (oldestKey)` is not taken.
EvictLRUKey ==
  LET oldestKey == EvictScan(accessTimes, 1, NoKey, now)
  IN IF TruthyKey(oldestKey) THEN oldestKey ELSE NoKey

\* A set that removes an expired entry when it finds one, whatever the size.
SetVictimPrefersExpired ==
  IF \E k \in MapKeys(cache) : now > MapGet(expirationTimes, k)
  THEN CHOOSE k \in MapKeys(cache) : now > MapGet(expirationTimes, k)
  ELSE IF Len(cache) >= maxSize THEN EvictLRUKey ELSE NoKey

\* The key Cache.set removes before inserting: evictLRU runs when the cache
\* is full, whether or not the key being set is already present.
SetVictim == IF Len(cache) >= maxSize THEN EvictLRUKey ELSE NoKey

\* History of a set: it evicts an entry that has not expired although the
\* cache holds an expired entry that was accessed later.
SetPassesOverExpired ==
  /\ MapHas(cache, SetVictim)
  /\ now <= MapGet(expirationTimes, SetVictim)
  /\ \E k \in MapKeys(cache) \ {SetVictim} :
       /\ now > MapGet(expirationTimes, k)
       /\ MapGet(accessTimes, k) > MapGet(accessTimes, SetVictim)

\* The three maps after set(key, value, ttl).
CacheSetEffect(key, value, ttl) ==
  LET victim == SetVictim
  IN /\ cache' = MapSet(MapDelete(cache, victim), key, value)
     /\ accessTimes' = MapSet(MapDelete(accessTimes, victim), key, now)
     /\ expirationTimes' =
          MapSet(MapDelete(expirationTimes, victim), key, now + ttl)

\* set(key, value, ttl = this.defaultTTL)
Cache_set(key, value, ttl) ==
  /\ CacheSetEffect(key, value, ttl)
  /\ cacheCall' = [op |-> "set", key |-> key, value |-> value,
                   ttl |-> ttl, ret |-> Null,
                   expired |-> SetPassesOverExpired]
  /\ UNCHANGED <<maxSize, defaultTTL>>

\* An expiry test that already fails at the expiration time itself.
CacheExpiredAtDeadline(key) ==
  MapHas(cache, key) /\ now >= MapGet(expirationTimes, key)

\* `Date.now() > this.expirationTimes.get(key)` for a key the cache holds.
CacheExpired(key) ==
  MapHas(cache, key) /\ now > MapGet(expirationTimes, key)

\* What get(key) returns.
CacheGetResult(key) ==
  IF ~MapHas(cache, key) THEN Null
  ELSE IF CacheExpired(key) THEN Null
  ELSE MapGet(cache, key)

\* A delete that leaves the key's access time behind.
CacheDeleteKeepsAccessTime(key) ==
  /\ cache' = MapDelete(cache, key)
  /\ accessTimes' = accessTimes
  /\ expirationTimes' = MapDelete(expirationTimes, key)

\* The three maps after delete(key).
CacheDeleteEffect(key) ==
  /\ cache' = MapDelete(cache, key)
  /\ accessTimes' = MapDelete(accessTimes, key)
  /\ expirationTimes' = MapDelete(expirationTimes, key)

\* A get that reports an expired entry as missing and leaves it in place.
CacheGetEffectKeepsExpired(key) ==
  IF MapHas(cache, key) /\ ~CacheExpired(key)
  THEN /\ accessTimes' = MapSet(accessTimes, key, now)
       /\ UNCHANGED <<cache, expirationTimes>>
  ELSE UNCHANGED <<cache, accessTimes, expirationTimes>>

\* A get that leaves the access time of the entry it returns as it was.
CacheGetEffectNoRefresh(key) ==
  IF CacheExpired(key)
  THEN CacheDeleteEffect(key)
  ELSE UNCHANGED <<cache, accessTimes, expirationTimes>>

\* The three maps after get(key): an expired entry is deleted, a live one
\* has its access time refreshed.
CacheGetEffect(key) ==
  IF ~MapHas(cache, key)
  THEN UNCHANGED <<cache, accessTimes, expirationTimes>>
  ELSE IF CacheExpired(key)
       THEN CacheDeleteEffect(key)
       ELSE /\ accessTimes' = MapSet(accessTimes, key, now)
            /\ UNCHANGED <<cache, expirationTimes>>

\* get(key).  The call record keeps, besides the returned value, whether
\* the key was found expired and the value a directly preceding set of the
\* same key had written (Null when the preceding call was not such a set).
Cache_get(key) ==
  /\ CacheGetEffect(key)
  /\ cacheCall' = [op |-> "get", key |-> key,
                   value |-> IF cacheCall.op = "set" /\ cacheCall.key = key
                             THEN cacheCall.value ELSE Null,
                   ttl |-> Null,
                   ret |-> CacheGetResult(key), expired |-> CacheExpired(key)]
  /\ UNCHANGED <<maxSize, defaultTTL>>

\* delete(key)
Cache_delete(key) ==
  /\ CacheDeleteEffect(key)
  /\ cacheCall' = [op |-> "delete", key |-> key,
                   value |-> IF MapHas(cache, key) THEN MapGet(cache, key)
                             ELSE Null,
                   ttl |-> Null, ret |-> Null, expired |-> FALSE]
  /\ UNCHANGED <<maxSize, defaultTTL>>

\* clear()
Cache_clear ==
  /\ cache' = <<>>
  /\ accessTimes' = <<>>
  /\ expirationTimes' = <<>>
  /\ cacheCall' = [op |-> "clear", key |-> NoKey, value |-> Null,
                   ttl |-> Null, ret |-> Null, expired |-> FALSE]
  /\ UNCHANGED <<maxSize, defaultTTL>>

-----------------------------------------------------------------------------
(* RequestBatcher *)

\* What the operation passed to addRequest does when it is invoked: it
\* returns a promise that fulfils, returns a promise that rejects, or throws
\* before returning.  An operation that never settles is one whose
\* SettleOperation step is never taken.
OperationKinds == {"fulfil", "reject", "throw"}

\* The operation's own result and its own failure, distinct per request.
OpResult(i) == 100 + i
OpError(i) == 200 + i

\* constructor(batchSize, batchTimeout)
RequestBatcher_constructor(size, timeout) ==
  /\ batchSize = size
  /\ batchTimeout = timeout
  /\ pendingRequests = <<>>
  /\ batchTimer = Null
  /\ timers = {}
  /\ requests = <<>>
  /\ batches = <<>>
  /\ batCall = [op |-> "constructor", pushed |-> 0, batch |-> 0]

\* Position in the batch of the first operation that throws when invoked,
\* 0 when none does: batch.map(item => item.request()) stops there.
FirstThrow(batch, reqs) ==
  IF \E j \in DOMAIN batch : reqs[batch[j]].kind = "throw"
  THEN CHOOSE j \in DOMAIN batch :
         /\ reqs[batch[j]].kind = "throw"
         /\ \A k \in 1..(j - 1) : reqs[batch[k]].kind # "throw"
  ELSE 0

\* The request at position j of a batch once the synchronous part of
\* processBatch has run; p is FirstThrow and b the batch's number.
\*  - no throw: every operation is invoked and is awaited;
\*  - a throw at p: operations before p were invoked, those after p never
\*    are, and the catch block rejects every future with the thrown error.
TakenRequest(r, j, p, thrown, b) ==
  LET invoked == [r EXCEPT !.op = IF j = p THEN "threw" ELSE "running",
                           !.batch = b, !.invoked = @ + 1]
      skipped == [r EXCEPT !.op = "skipped", !.batch = b]
  IN IF p = 0 THEN invoked
     ELSE [(IF j <= p THEN invoked ELSE skipped)
             EXCEPT !.future = "rejected", !.value = thrown]

\* A splice that takes a copy of the first n items and leaves the queue.
SpliceLeavesQueue(pend, n) == pend

\* What pendingRequests.splice(0, n) leaves in the queue.
SplicedRest(pend, n) == SubSeq(pend, n + 1, Len(pend))

\* A flush that leaves the armed timer and the handle as they are.
CancelTimerSkipped(tmrs) ==
  /\ timers' = tmrs
  /\ batchTimer' = batchTimer

\* clearTimeout(this.batchTimer); this.batchTimer = null
CancelTimer(tmrs) ==
  /\ timers' = {t \in tmrs : t.id # batchTimer}
  /\ batchTimer' = Null

\* processBatch(), up to its await; pend, reqs and tmrs are the pending
\* queue, the requests and the armed timers it finds.
ProcessBatch(pend, reqs, tmrs, trigger) ==
  IF Len(pend) = 0
  THEN /\ pendingRequests' = pend
       /\ requests' = reqs
       /\ timers' = tmrs
       /\ UNCHANGED <<batchTimer, batches>>
  ELSE LET n == Min(batchSize, Len(pend))
           batch == SubSeq(pend, 1, n)
           p == FirstThrow(batch, reqs)
           thrown == IF p = 0 THEN Null ELSE OpError(batch[p])
           b == Len(batches) + 1
       IN /\ CancelTimer(tmrs)
          /\ pendingRequests' = SplicedRest(pend, n)
          /\ requests' =
               [i \in DOMAIN reqs |->
                  IF \E j \in DOMAIN batch : batch[j] = i
                  THEN TakenRequest(reqs[i], IndexOf(batch, i), p, thrown, b)
                  ELSE reqs[i]]
          /\ batches' = Append(batches,
               [items |-> batch,
                phase |-> IF p = 0 THEN "awaiting" ELSE "failed",
                by |-> trigger,
                at |-> now])

\* An addRequest that re-arms the timer on every request below batchSize.
ArmTimerAlways(tmrs) ==
  LET handle == Len(requests) + 1
  IN /\ batchTimer' = handle
     /\ timers' = {t \in tmrs : t.id # batchTimer}
                    \cup {[id |-> handle, due |-> now + batchTimeout]}

\* The else-branch of addRequest: setTimeout when no timer handle is held.
ArmTimer(tmrs) ==
  IF batchTimer = Null
  THEN LET handle == Len(requests) + 1
       IN /\ batchTimer' = handle
          /\ timers' = tmrs \cup {[id |-> handle, due |-> now + batchTimeout]}
  ELSE /\ batchTimer' = batchTimer
       /\ timers' = tmrs

\* A size test that flushes one request late.
BatchOverfull(pend) == Len(pend) > batchSize

\* `this.pendingRequests.length >= this.batchSize`
BatchFull(pend) == Len(pend) >= batchSize

\* addRequest(request): the promise executor runs inside the call.
RequestBatcher_addRequest(kind) ==
  LET id == Len(requests) + 1
      reqs == Append(requests,
                [kind |-> kind, op |-> "queued", future |-> "pending",
                 value |-> Null, enqueuedAt |-> now, batch |-> 0,
                 invoked |-> 0])
      pend == Append(pendingRequests, id)
  IN /\ IF BatchFull(pend)
        THEN ProcessBatch(pend, reqs, timers, "size")
        ELSE /\ ArmTimer(timers)
             /\ pendingRequests' = pend
             /\ requests' = reqs
             /\ UNCHANGED batches
     /\ batCall' = [op |-> "addRequest", pushed |-> Len(pend),
                    batch |-> IF BatchFull(pend)
                              THEN Len(batches) + 1 ELSE 0]
     /\ UNCHANGED <<batchSize, batchTimeout>>

\* The setTimeout callback of addRequest runs: the timer t is due.
TimerFires(t) ==
  /\ t \in timers
  /\ t.due <= now
  /\ ProcessBatch(pendingRequests, requests, timers \ {t}, "timer")
  /\ batCall' = [op |-> "timer", pushed |-> Len(pendingRequests),
                 batch |-> IF Len(pendingRequests) > 0
                           THEN Len(batches) + 1 ELSE 0]
  /\ UNCHANGED <<batchSize, batchTimeout>>

\* The promise an invoked operation returned settles.
SettleOperation(i) ==
  /\ requests[i].op = "running"
  /\ requests' = [requests EXCEPT
       ![i].op = IF requests[i].kind = "fulfil" THEN "fulfilled" ELSE "rejected"]
  /\ UNCHANGED <<batchSize, batchTimeout, pendingRequests, batchTimer, timers,
                 batches, batCall>>

\* results.forEach of processBatch for one item: resolve or reject its own
\* promise with its own outcome.
SettledRequest(r, i) ==
  IF r.op = "fulfilled"
  THEN [r EXCEPT !.future = "resolved", !.value = OpResult(i)]
  ELSE [r EXCEPT !.future = "rejected", !.value = OpError(i)]

\* processBatch() after its await: Promise.allSettled has every outcome.
ResumeBatch(b) ==
  /\ batches[b].phase = "awaiting"
  /\ \A j \in DOMAIN batches[b].items :
       requests[batches[b].items[j]].op \in {"fulfilled", "rejected"}
  /\ requests' =
       [i \in DOMAIN requests |->
          IF requests[i].batch = b THEN SettledRequest(requests[i], i)
          ELSE requests[i]]
  /\ batches' = [batches EXCEPT ![b].phase = "settled"]
  /\ UNCHANGED <<batchSize, batchTimeout, pendingRequests, batchTimer, timers,
                 batCall>>

\* The clock of the batcher's event loop: a due timer runs before the clock
\* moves on.
BatcherTick ==
  /\ \A t \in timers : t.due > now
  /\ Tick(MaxTime)

-----------------------------------------------------------------------------
(* PerformanceMonitor *)

\* this.maxResponseTimeHistory = 100
maxResponseTimeHistory == 100

\* Math.min() and Math.max() of no arguments: Infinity and -Infinity, here
\* integers beyond every sample.
PosInfinity == 1000000000
NegInfinity == -1000000000

\* A JavaScript number that is a quotient, kept exact as <<numerator,
\* denominator>>; 0 is <<0, 1>>.
Zero == <<0, 1>>
SameNumber(x, y) == x[1] * y[2] = y[1] * x[2]

RECURSIVE Sum(_)
Sum(s) ==
  IF s = <<>> THEN 0
  ELSE IF Len(s) = 1 THEN s[1]
  ELSE LET half == Len(s) \div 2
       IN Sum(SubSeq(s, 1, half)) + Sum(SubSeq(s, half + 1, Len(s)))

RECURSIVE MinOf(_)
MinOf(s) ==
  IF s = <<>> THEN PosInfinity
  ELSE IF Len(s) = 1 THEN s[1]
  ELSE LET half == Len(s) \div 2
       IN Min(MinOf(SubSeq(s, 1, half)), MinOf(SubSeq(s, half + 1, Len(s))))

RECURSIVE MaxOf(_)
MaxOf(s) ==
  IF s = <<>> THEN NegInfinity
  ELSE IF Len(s) = 1 THEN s[1]
  ELSE LET l == MaxOf(SubSeq(s, 1, Len(s) \div 2))
           r == MaxOf(SubSeq(s, Len(s) \div 2 + 1, Len(s)))
       IN IF l > r THEN l ELSE r

\* [...s].sort((a, b) => a - b): ascending and stable; placed pairs every
\* element with the position the sort gives it.
Sorted(s) ==
  LET placed == {<<Cardinality({j \in DOMAIN s :
                                 s[j] < s[i] \/ (s[j] = s[i] /\ j <= i)}),
                   s[i]>> : i \in DOMAIN s}
  IN [k \in DOMAIN s |-> (CHOOSE pair \in placed : pair[1] = k)[2]]

\* Math.ceil(a / b) for a >= 0, b > 0.
CeilDiv(a, b) == (a + b - 1) \div b

FreshMetrics ==
  [requests |-> [total |-> 0, successful |-> 0, failed |-> 0,
                 averageResponseTime |-> Zero],
   cache |-> [hits |-> 0, misses |-> 0, hitRate |-> Zero],
   connections |-> [active |-> 0, total |-> 0, errors |-> 0]]

\* constructor()
PerformanceMonitor_constructor ==
  /\ metrics = FreshMetrics
  /\ responseTimes = <<>>
  /\ monCall = [op |-> "constructor", arg |-> Null, ret |-> Null, dropped |-> 0]

\* A window that, once full, turns the new sample away.
PushedWindowDropsNewest(window, responseTime) ==
  IF Len(window) >= maxResponseTimeHistory THEN window
  ELSE Append(window, responseTime)

\* this.responseTimes after the push and the shift of recordRequest.
PushedWindow(window, responseTime) ==
  LET pushed == Append(window, responseTime)
  IN IF Len(pushed) > maxResponseTimeHistory THEN Tail(pushed) ELSE pushed

\* A recordRequest that keeps the mean of every sample since the last reset.
RecordedMetricsRunningMean(m, window, responseTime, success) ==
  LET mean == m.requests.averageResponseTime
      n == m.requests.total
  IN [m EXCEPT
        !.requests.total = @ + 1,
        !.requests.successful = IF success THEN @ + 1 ELSE @,
        !.requests.failed = IF success THEN @ ELSE @ + 1,
        !.requests.averageResponseTime =
           <<mean[1] * n + responseTime * mean[2], mean[2] * (n + 1)>>]

\* A recordRequest that counts every sample as successful.
RecordedMetricsAsSuccessful(m, window, responseTime, success) ==
  LET w == PushedWindow(window, responseTime)
  IN [m EXCEPT
        !.requests.total = @ + 1,
        !.requests.successful = @ + 1,
        !.requests.averageResponseTime = <<Sum(w), Len(w)>>]

\* this.metrics after recordRequest(responseTime, success) on (m, window).
\* A recordRequest that counts a failed request as successful too.
RecordedMetricsCountsBoth(m, window, responseTime, success) ==
  LET w == PushedWindow(window, responseTime)
  IN [m EXCEPT
        !.requests.total = @ + 1,
        !.requests.successful = @ + 1,
        !.requests.failed = IF success THEN @ ELSE @ + 1,
        !.requests.averageResponseTime = <<Sum(w), Len(w)>>]

RecordedMetrics(m, window, responseTime, success) ==
  LET w == PushedWindow(window, responseTime)
  IN [m EXCEPT
        !.requests.total = @ + 1,
        !.requests.successful = IF success THEN @ + 1 ELSE @,
        !.requests.failed = IF success THEN @ ELSE @ + 1,
        !.requests.averageResponseTime = <<Sum(w), Len(w)>>]

\* recordRequest(responseTime, success = true)
PerformanceMonitor_recordRequest(responseTime, success) ==
  /\ metrics' = RecordedMetrics(metrics, responseTimes, responseTime, success)
  /\ responseTimes' = PushedWindow(responseTimes, responseTime)
  /\ monCall' = [op |-> "recordRequest", arg |-> responseTime, ret |-> Null,
                 dropped |-> Len(responseTimes) + 1 - Len(responseTimes')]

\* updateCacheHitRate() on metrics m
UpdatedHitRate(m) ==
  LET total == m.cache.hits + m.cache.misses
  IN [m EXCEPT !.cache.hitRate =
        IF total > 0 THEN <<m.cache.hits * 100, total>> ELSE Zero]

\* this.metrics after recordCacheHit() / recordCacheMiss() on m
CacheHitRecorded(m) == UpdatedHitRate([m EXCEPT !.cache.hits = @ + 1])
CacheMissRecorded(m) == UpdatedHitRate([m EXCEPT !.cache.misses = @ + 1])

\* recordCacheHit()
PerformanceMonitor_recordCacheHit ==
  /\ metrics' = CacheHitRecorded(metrics)
  /\ monCall' = [op |-> "recordCacheHit", arg |-> Null, ret |-> Null,
                 dropped |-> 0]
  /\ UNCHANGED responseTimes

\* recordCacheMiss()
PerformanceMonitor_recordCacheMiss ==
  /\ metrics' = CacheMissRecorded(metrics)
  /\ monCall' = [op |-> "recordCacheMiss", arg |-> Null, ret |-> Null,
                 dropped |-> 0]
  /\ UNCHANGED responseTimes

\* A percentile taken at index floor(percentile / 100 * n).
PercentileAtFloor(percentile) ==
  IF Len(responseTimes) = 0 THEN 0
  ELSE LET sorted == Sorted(responseTimes)
           index == (percentile * Len(sorted)) \div 100
       IN IF index + 1 \in DOMAIN sorted THEN sorted[index + 1] ELSE 0

\* calculatePercentile(percentile): 0 for an empty window, else the element
\* of the sorted window at index ceil(percentile / 100 * n) - 1, and 0 when
\* that element is missing or falsy (`sorted[index] || 0`).
calculatePercentile(percentile) ==
  IF Len(responseTimes) = 0 THEN 0
  ELSE LET sorted == Sorted(responseTimes)
           index == CeilDiv(percentile * Len(sorted), 100) - 1
       IN IF index + 1 \in DOMAIN sorted THEN sorted[index + 1] ELSE 0

\* The responseTimeStats object getMetrics() builds.
ResponseTimeStats ==
  [min |-> MinOf(responseTimes),
   max |-> MaxOf(responseTimes),
   average |-> metrics.requests.averageResponseTime,
   p95 |-> calculatePercentile(95),
   p99 |-> calculatePercentile(99)]

\* getMetrics()
PerformanceMonitor_getMetrics ==
  /\ monCall' = [op |-> "getMetrics", arg |-> Null, ret |-> ResponseTimeStats,
                 dropped |-> 0]
  /\ UNCHANGED <<metrics, responseTimes>>

\* A reset that clears the counters and keeps the window.
ResetKeepsWindow ==
  /\ metrics' = FreshMetrics
  /\ responseTimes' = responseTimes
  /\ monCall' = [op |-> "reset", arg |-> Null, ret |-> Null,
                 dropped |-> Len(responseTimes)]

\* reset()
PerformanceMonitor_reset ==
  /\ metrics' = FreshMetrics
  /\ responseTimes' = <<>>
  /\ monCall' = [op |-> "reset", arg |-> Null, ret |-> Null,
                 dropped |-> Len(responseTimes)]

-----------------------------------------------------------------------------
(* withPerformanceMonitoring *)

\* The options a function is wrapped with: enableCaching, cacheKey (null by
\* default) and cacheTTL.
WrapperOptions ==
  {[enableCaching |-> e, cacheKey |-> k, cacheTTL |-> MaxTTL] :
     e \in BOOLEAN, k \in {NoKey, "a"}}

\* The errors the wrapped function can fail with.
FnErrors == {500, 501}

\* A wrapper that never uses the cache.
CachingNever(options) == FALSE

\* `enableCaching && cacheKey`
Caching(options) == options.enableCaching /\ TruthyKey(options.cacheKey)

\* `if (cached)`: the value read from the cache counts as a hit.
IsHit(cached) == Truthy(cached)

\* What the wrapper does between its call and the first await: on a hit it
\* returns the cached value, and its finally block still runs.
WrapperStart(options) ==
  IF Caching(options)
  THEN LET cached == CacheGetResult(options.cacheKey)
       IN /\ CacheGetEffect(options.cacheKey)
          /\ IF IsHit(cached)
             THEN /\ metrics' = RecordedMetrics(CacheHitRecorded(metrics),
                                                responseTimes, now - now, TRUE)
                  /\ responseTimes' = PushedWindow(responseTimes, now - now)
                  /\ calls' = Append(calls,
                       [options |-> options, startTime |-> now,
                        pc |-> "returned", hit |-> TRUE, invoked |-> 0,
                        ret |-> cached, error |-> Null])
             ELSE /\ metrics' = CacheMissRecorded(metrics)
                  /\ responseTimes' = responseTimes
                  /\ calls' = Append(calls,
                       [options |-> options, startTime |-> now,
                        pc |-> "awaiting", hit |-> FALSE, invoked |-> 1,
                        ret |-> Null, error |-> Null])
  ELSE /\ UNCHANGED <<cache, accessTimes, expirationTimes, metrics,
                      responseTimes>>
       /\ calls' = Append(calls,
            [options |-> options, startTime |-> now,
             pc |-> "awaiting", hit |-> FALSE, invoked |-> 1,
             ret |-> Null, error |-> Null])

\* A wrapped function is called.
WrapperCall(options) ==
  /\ WrapperStart(options)
  /\ UNCHANGED <<maxSize, defaultTTL, cacheCall, monCall>>

\* `await fn.apply(this, args)` of call c ends with a result: it is cached
\* when caching is on, one successful sample is recorded, and it is returned.
WrapperFnReturns(c, result) ==
  /\ calls[c].pc = "awaiting"
  /\ IF Caching(calls[c].options)
     THEN CacheSetEffect(calls[c].options.cacheKey, result,
                         calls[c].options.cacheTTL)
     ELSE UNCHANGED <<cache, accessTimes, expirationTimes>>
  /\ metrics' = RecordedMetrics(metrics, responseTimes,
                                now - calls[c].startTime, TRUE)
  /\ responseTimes' = PushedWindow(responseTimes, now - calls[c].startTime)
  /\ calls' = [calls EXCEPT ![c].pc = "returned", ![c].ret = result]
  /\ UNCHANGED <<maxSize, defaultTTL, cacheCall, monCall>>

\* `await fn.apply(this, args)` of call c fails with error: nothing is
\* cached, one failed sample is recorded, and the error is rethrown.
WrapperFnThrows(c, error) ==
  /\ calls[c].pc = "awaiting"
  /\ metrics' = RecordedMetrics(metrics, responseTimes,
                                now - calls[c].startTime, FALSE)
  /\ responseTimes' = PushedWindow(responseTimes, now - calls[c].startTime)
  /\ calls' = [calls EXCEPT ![c].pc = "threw", ![c].error = error]
  /\ UNCHANGED <<cacheVars, monCall>>

-----------------------------------------------------------------------------
(* HealthChecker (src/utils/monitoring.js 21-175) *)

\* A property that is absent (undefined) in a result object.
NoText == "<undefined>"

\* JavaScript's `x || d` on an optional text property.
OrElse(x, d) == IF x = NoText THEN d ELSE x

CheckNames == {"rpc", "db"}

\* What a registered check function does when it is invoked: return a
\* promise that is fulfilled, return a promise that is rejected, or throw
\* before returning a promise.
CheckKinds == {"fulfil", "reject", "throw"}

\* The value a check function fulfils with: an object with a message and
\* no status.
CheckValue == [status |-> NoText, message |-> "ok"]

\* The message of the error a check function of kind fn fails with.
CheckError(fn) == IF fn = "throw" THEN "threw" ELSE "rejected"

\* constructor()
HealthChecker_constructor ==
  /\ checks = <<>>
  /\ status = [overall |-> "unknown", checks |-> <<>>, lastUpdate |-> Null,
               uptime |-> now, criticalFailures |-> Null]
  /\ runs = <<>>
  /\ sweeps = <<>>

\* addCheck(name, checkFunction, options) with an explicit timeout.
HealthChecker_addCheck(name, fn, timeout, critical) ==
  /\ checks' = MapSet(checks, name,
                      [function |-> fn, timeout |-> timeout,
                       critical |-> critical])
  /\ UNCHANGED <<status, runs, sweeps>>

\* The object runCheck returns when the race is won by the check function's
\* fulfilment with result.
PassedResult(run, result) ==
  [status |-> OrElse(result.status, "healthy"),
   message |-> OrElse(result.message, "Check passed"),
   error |-> NoText,
   responseTime |-> now - run.startTime,
   timestamp |-> now]

\* The object the catch block of runCheck returns for an error with the
\* given message.
FailedResult(run, message) ==
  [status |-> "unhealthy",
   message |-> NoText,
   error |-> message,
   responseTime |-> now - run.startTime,
   timestamp |-> now]

\* The object runCheck returns for a name that is not registered.
NotFoundResult ==
  [status |-> "unknown",
   message |-> NoText,
   error |-> "Check not found",
   responseTime |-> Null,
   timestamp |-> now]

\* runCheck(name) up to its await, as invocation number `sweep` of
\* runAllChecks has called it (0: called directly).  The check function is
\* invoked while the array passed to Promise.race is built, before the timer
\* is set: a check that throws there is caught with no timer armed.
StartedRun(name, sweep) ==
  IF ~MapHas(checks, name)
  THEN [name |-> name, sweep |-> sweep, check |-> Null, startTime |-> now,
        fn |-> "none", timer |-> "none", due |-> Null,
        pc |-> "returned", ret |-> NotFoundResult]
  ELSE LET check == MapGet(checks, name)
           run == [name |-> name, sweep |-> sweep, check |-> check,
                   startTime |-> now, fn |-> "running", timer |-> "armed",
                   due |-> now + check.timeout, pc |-> "awaiting",
                   ret |-> Null]
       IN IF check.function = "throw"
          THEN [run EXCEPT !.fn = "threw", !.timer = "none", !.due = Null,
                           !.pc = "returned",
                           !.ret = FailedResult(run, CheckError("throw"))]
          ELSE run

\* A race that lets every settlement of its promises through.
RaceSettledAgain(run, result) == [run EXCEPT !.pc = "returned", !.ret = result]

\* Promise.race: the first settlement of one of its promises settles the
\* race and resumes runCheck, which returns result; a later settlement of
\* the other promise has no effect.
RaceSettled(run, result) ==
  IF run.pc = "awaiting"
  THEN [run EXCEPT !.pc = "returned", !.ret = result]
  ELSE run

\* The body of the loop of runAllChecks after `await this.runCheck(name)`
\* has returned result for the entry <<name, check>>.
SweepFold(s, name, check, result) ==
  LET unhealthy == result.status = "unhealthy"
  IN [s EXCEPT
        !.results = MapSet(s.results, name, result),
        !.overallStatus =
           IF unhealthy /\ check.critical THEN "critical"
           ELSE IF unhealthy /\ s.overallStatus = "healthy" THEN "degraded"
           ELSE s.overallStatus,
        !.criticalFailures =
           IF unhealthy /\ check.critical THEN s.criticalFailures + 1
           ELSE s.criticalFailures]

\* The loop of invocation k of runAllChecks from entry i of this.checks on,
\* with rs the runCheck invocations so far: it goes on while runCheck returns
\* without waiting and stops at the first one that waits.  The pair of the
\* invocation's state and the runCheck invocations.
RECURSIVE SweepFrom(_, _, _, _)
SweepFrom(s, rs, i, k) ==
  IF i > Len(checks)
  THEN <<[s EXCEPT !.pc = "done", !.pos = i], rs>>
  ELSE LET run == StartedRun(checks[i][1], k)
       IN IF run.pc = "returned"
          THEN SweepFrom(SweepFold(s, checks[i][1], checks[i][2], run.ret),
                         Append(rs, run), i + 1, k)
          ELSE <<[s EXCEPT !.pos = i], Append(rs, run)>>

\* The assignment to this.status that ends invocation s of runAllChecks.
RecordedStatus(s) ==
  [overall |-> s.overallStatus,
   checks |-> s.results,
   lastUpdate |-> now,
   uptime |-> now - status.uptime,
   criticalFailures |-> s.criticalFailures]

\* runCheck invocation r of rs has just returned: a direct caller has its
\* value; runAllChecks resumes, goes on with its loop and, after the last
\* entry, assigns this.status.
RunReturned(rs, r) ==
  IF rs[r].sweep = 0
  THEN /\ runs' = rs
       /\ UNCHANGED <<status, sweeps>>
  ELSE LET k == rs[r].sweep
           folded == SweepFold(sweeps[k], rs[r].name, rs[r].check, rs[r].ret)
           after == SweepFrom(folded, rs, sweeps[k].pos + 1, k)
       IN /\ runs' = after[2]
          /\ sweeps' = [sweeps EXCEPT ![k] = after[1]]
          /\ status' = IF after[1].pc = "done"
                       THEN RecordedStatus(after[1])
                       ELSE status

\* runCheck(name), called directly.
HealthChecker_runCheck(name) ==
  /\ runs' = Append(runs, StartedRun(name, 0))
  /\ UNCHANGED <<checks, status, sweeps>>

\* runAllChecks()
HealthChecker_runAllChecks ==
  LET k == Len(sweeps) + 1
      after == SweepFrom([pos |-> 0, results |-> <<>>,
                          overallStatus |-> "healthy",
                          criticalFailures |-> 0, pc |-> "awaiting"],
                         runs, 1, k)
  IN /\ runs' = after[2]
     /\ sweeps' = Append(sweeps, after[1])
     /\ status' = IF after[1].pc = "done"
                  THEN RecordedStatus(after[1])
                  ELSE status
     /\ UNCHANGED checks

\* The promise of the check function of runCheck invocation r settles.
CheckSettles(r) ==
  /\ runs[r].fn = "running"
  /\ LET fn == runs[r].check.function
         settled == [runs[r] EXCEPT
                       !.fn = IF fn = "reject" THEN "rejected"
                              ELSE "fulfilled"]
         result == IF fn = "reject"
                   THEN FailedResult(runs[r], CheckError(fn))
                   ELSE PassedResult(runs[r], CheckValue)
         rs == [runs EXCEPT ![r] = RaceSettled(settled, result)]
     IN IF runs[r].pc = "awaiting"
        THEN RunReturned(rs, r)
        ELSE runs' = rs /\ UNCHANGED <<status, sweeps>>
  /\ UNCHANGED checks

\* The timer of runCheck invocation r fires: it rejects its promise with
\* Error('Check timeout').
CheckTimerFires(r) ==
  /\ runs[r].timer = "armed"
  /\ runs[r].due <= now
  /\ LET fired == [runs[r] EXCEPT !.timer = "fired"]
         rs == [runs EXCEPT
                  ![r] = RaceSettled(fired,
                                     FailedResult(runs[r], "Check timeout"))]
     IN IF runs[r].pc = "awaiting"
        THEN RunReturned(rs, r)
        ELSE runs' = rs /\ UNCHANGED <<status, sweeps>>
  /\ UNCHANGED checks

\* The clock of the health checker's event loop: a due timer runs before
\* the clock moves on.
HealthTick ==
  /\ \A r \in DOMAIN runs : runs[r].timer = "armed" => runs[r].due > now
  /\ Tick(MaxHealthTime)

-----------------------------------------------------------------------------
(* Specifications *)

\* Every specification starts from freshly constructed objects; the ones it
\* does not exercise keep their constructed state.
InitPool ==
  /\ now = 0
  /\ \E n \in 1..MaxEndpoints, m \in 1..MaxPoolSize :
       ConnectionPool_constructor(SubSeq(EndpointNames, 1, n), m)
  /\ Cache_constructor(MaxCacheSize, MaxTTL)
  /\ RequestBatcher_constructor(1, 1)
  /\ PerformanceMonitor_constructor
  /\ calls = <<>>
  /\ HealthChecker_constructor

\* initializePerformance constructs the pool and initializes it once.
NextPool ==
  \/ (Tick(MaxTime) /\ UNCHANGED <<poolVars, cacheVars, batVars, monVars, wrapVars, healthVars>>)
  \/ (Len(connections) = 0 /\ ConnectionPool_initialize
        /\ UNCHANGED <<now, cacheVars, batVars, monVars, wrapVars, healthVars>>)
  \/ (ConnectionPool_getConnection
        /\ UNCHANGED <<now, cacheVars, batVars, monVars, wrapVars, healthVars>>)
  \/ (\E c \in DOMAIN connections :
        ConnectionPool_releaseConnection(c) /\ UNCHANGED <<now, cacheVars, batVars, monVars, wrapVars, healthVars>>)
  \/ (\E c \in DOMAIN connections :
        ConnectionPool_markUnhealthy(c) /\ UNCHANGED <<now, cacheVars, batVars, monVars, wrapVars, healthVars>>)
  \/ (ConnectionPool_getStatsCall
        /\ UNCHANGED <<now, cacheVars, batVars, monVars, wrapVars, healthVars>>)

SpecPool == InitPool /\ [][NextPool]_vars

\* Last clock reading of the runs in which entries outlive one another; it
\* is also the defaultTTL of their cache.
MaxExpiryTime == 2

InitExpiry ==
  /\ now = 0
  /\ ConnectionPool_constructor(SubSeq(EndpointNames, 1, 1), 1)
  /\ \E size \in 1..MaxCacheSize : Cache_constructor(size, MaxExpiryTime)
  /\ RequestBatcher_constructor(1, 1)
  /\ PerformanceMonitor_constructor
  /\ calls = <<>>
  /\ HealthChecker_constructor

\* The cache's operations over a longer run of the clock; every set stores
\* the same value.
NextExpiry ==
  \/ (Tick(MaxExpiryTime)
        /\ UNCHANGED <<poolVars, cacheVars, batVars, monVars, wrapVars, healthVars>>)
  \/ (\E key \in CacheKeys, ttl \in TTLs :
        Cache_set(key, 1, ttl)
          /\ UNCHANGED <<now, poolVars, batVars, monVars, wrapVars, healthVars>>)
  \/ (\E key \in CacheKeys :
        Cache_get(key) /\ UNCHANGED <<now, poolVars, batVars, monVars, wrapVars, healthVars>>)
  \/ (\E key \in CacheKeys :
        Cache_delete(key)
          /\ UNCHANGED <<now, poolVars, batVars, monVars, wrapVars, healthVars>>)
  \/ (Cache_clear /\ UNCHANGED <<now, poolVars, batVars, monVars, wrapVars, healthVars>>)

SpecExpiry == InitExpiry /\ [][NextExpiry]_vars

\* Most connection objects a pool holds in the runs that call initialize
\* again.
MaxReinitConnections == 4

\* The pool's operations with initialize callable on an initialized pool:
\* the method has no guard of its own.
NextReinit ==
  \/ (/\ Len(connections) + Min(maxConnections, Len(endpoints))
           <= MaxReinitConnections
      /\ ConnectionPool_initialize
      /\ UNCHANGED <<now, cacheVars, batVars, monVars, wrapVars, healthVars>>)
  \/ (ConnectionPool_getConnection
        /\ UNCHANGED <<now, cacheVars, batVars, monVars, wrapVars, healthVars>>)
  \/ (\E c \in DOMAIN connections :
        ConnectionPool_releaseConnection(c)
          /\ UNCHANGED <<now, cacheVars, batVars, monVars, wrapVars, healthVars>>)
  \/ (\E c \in DOMAIN connections :
        ConnectionPool_markUnhealthy(c)
          /\ UNCHANGED <<now, cacheVars, batVars, monVars, wrapVars, healthVars>>)

SpecReinit == InitPool /\ [][NextReinit]_vars

InitCache ==
  /\ now = 0
  /\ ConnectionPool_constructor(SubSeq(EndpointNames, 1, 1), 1)
  /\ \E size \in 1..MaxCacheSize : Cache_constructor(size, MaxTTL)
  /\ RequestBatcher_constructor(1, 1)
  /\ PerformanceMonitor_constructor
  /\ calls = <<>>
  /\ HealthChecker_constructor

NextCache ==
  \/ (Tick(MaxCacheTime) /\ UNCHANGED <<poolVars, cacheVars, batVars, monVars, wrapVars, healthVars>>)
  \/ (\E key \in CacheKeys, value \in Values, ttl \in TTLs :
        Cache_set(key, value, ttl) /\ UNCHANGED <<now, poolVars, batVars, monVars, wrapVars, healthVars>>)
  \/ (\E key \in CacheKeys : Cache_get(key) /\ UNCHANGED <<now, poolVars, batVars, monVars, wrapVars, healthVars>>)
  \/ (\E key \in CacheKeys : Cache_delete(key) /\ UNCHANGED <<now, poolVars, batVars, monVars, wrapVars, healthVars>>)
  \/ (Cache_clear /\ UNCHANGED <<now, poolVars, batVars, monVars, wrapVars, healthVars>>)

SpecCache == InitCache /\ [][NextCache]_vars

InitBatcher ==
  /\ now = 0
  /\ ConnectionPool_constructor(SubSeq(EndpointNames, 1, 1), 1)
  /\ Cache_constructor(MaxCacheSize, MaxTTL)
  /\ \E size \in 1..MaxBatchSize, timeout \in 1..MaxBatchTimeout :
       RequestBatcher_constructor(size, timeout)
  /\ PerformanceMonitor_constructor
  /\ calls = <<>>
  /\ HealthChecker_constructor

NextBatcher ==
  \/ (BatcherTick /\ UNCHANGED <<poolVars, cacheVars, batVars, monVars, wrapVars, healthVars>>)
  \/ (\E kind \in OperationKinds :
        /\ Len(requests) < MaxRequests
        /\ RequestBatcher_addRequest(kind)
        /\ UNCHANGED <<now, poolVars, cacheVars, monVars, wrapVars, healthVars>>)
  \/ (\E t \in timers : TimerFires(t) /\ UNCHANGED <<now, poolVars, cacheVars, monVars, wrapVars, healthVars>>)
  \/ (\E i \in DOMAIN requests :
        SettleOperation(i) /\ UNCHANGED <<now, poolVars, cacheVars, monVars, wrapVars, healthVars>>)
  \/ (\E b \in DOMAIN batches :
        ResumeBatch(b) /\ UNCHANGED <<now, poolVars, cacheVars, monVars, wrapVars, healthVars>>)

SpecBatcher == InitBatcher /\ [][NextBatcher]_vars

\* The clock of a run that is followed to its end: it goes on beyond MaxTime
\* for as long as a timer is armed, and a due timer runs before it moves on.
BatcherClock ==
  /\ \A t \in timers : t.due > now
  /\ now < MaxTime \/ timers # {}
  /\ now' = now + 1

NextBatcherLive ==
  \/ (BatcherClock /\ UNCHANGED <<poolVars, cacheVars, batVars, monVars, wrapVars, healthVars>>)
  \/ (\E kind \in OperationKinds :
        /\ Len(requests) < MaxRequests
        /\ RequestBatcher_addRequest(kind)
        /\ UNCHANGED <<now, poolVars, cacheVars, monVars, wrapVars, healthVars>>)
  \/ (\E t \in timers : TimerFires(t) /\ UNCHANGED <<now, poolVars, cacheVars, monVars, wrapVars, healthVars>>)
  \/ (\E i \in DOMAIN requests :
        SettleOperation(i) /\ UNCHANGED <<now, poolVars, cacheVars, monVars, wrapVars, healthVars>>)
  \/ (\E b \in DOMAIN batches :
        ResumeBatch(b) /\ UNCHANGED <<now, poolVars, cacheVars, monVars, wrapVars, healthVars>>)

\* The event loop runs what is ready: time passes, a due timer's callback
\* runs, and processBatch resumes once Promise.allSettled has every outcome.
\* Nothing obliges an operation to settle.
SpecBatcherLive ==
  /\ InitBatcher
  /\ [][NextBatcherLive]_vars
  /\ WF_vars(BatcherClock /\ UNCHANGED <<poolVars, cacheVars, batVars, monVars, wrapVars, healthVars>>)
  /\ WF_vars(\E t \in timers :
               TimerFires(t) /\ UNCHANGED <<now, poolVars, cacheVars, monVars, wrapVars, healthVars>>)
  /\ WF_vars(\E b \in DOMAIN batches :
               ResumeBatch(b) /\ UNCHANGED <<now, poolVars, cacheVars, monVars, wrapVars, healthVars>>)

InitMonitor ==
  /\ now = 0
  /\ ConnectionPool_constructor(SubSeq(EndpointNames, 1, 1), 1)
  /\ Cache_constructor(MaxCacheSize, MaxTTL)
  /\ RequestBatcher_constructor(1, 1)
  /\ PerformanceMonitor_constructor
  /\ calls = <<>>
  /\ HealthChecker_constructor

NextMonitor ==
  \/ (\E responseTime \in 0..MaxLatency, success \in BOOLEAN :
        /\ metrics.requests.total < MaxSamples
        /\ PerformanceMonitor_recordRequest(responseTime, success)
        /\ UNCHANGED <<now, poolVars, cacheVars, batVars, wrapVars, healthVars>>)
  \/ (/\ metrics.cache.hits + metrics.cache.misses < MaxSamples
      /\ PerformanceMonitor_recordCacheHit
      /\ UNCHANGED <<now, poolVars, cacheVars, batVars, wrapVars, healthVars>>)
  \/ (/\ metrics.cache.hits + metrics.cache.misses < MaxSamples
      /\ PerformanceMonitor_recordCacheMiss
      /\ UNCHANGED <<now, poolVars, cacheVars, batVars, wrapVars, healthVars>>)
  \/ (PerformanceMonitor_getMetrics
        /\ UNCHANGED <<now, poolVars, cacheVars, batVars, wrapVars, healthVars>>)
  \/ (PerformanceMonitor_reset
        /\ UNCHANGED <<now, poolVars, cacheVars, batVars, wrapVars, healthVars>>)

SpecMonitor == InitMonitor /\ [][NextMonitor]_vars

\* Windows a monitor holds after a run of successful recordRequest calls:
\* the five samples 10..50, and runs that fill the window to one below its
\* capacity and to its capacity, largest samples first.
PrefilledWindows ==
  {<<10, 20, 30, 40, 50>>}
    \cup {[i \in 1..n |-> IF i <= 6 THEN 7 - i ELSE 0] :
            n \in (maxResponseTimeHistory - 1)..maxResponseTimeHistory}

\* The monitor after recordRequest(w[1]), ..., recordRequest(w[Len(w)]) on a
\* newly constructed monitor, for a prefilled window w.
InitWindow ==
  /\ now = 0
  /\ ConnectionPool_constructor(SubSeq(EndpointNames, 1, 1), 1)
  /\ Cache_constructor(MaxCacheSize, MaxTTL)
  /\ RequestBatcher_constructor(1, 1)
  /\ calls = <<>>
  /\ HealthChecker_constructor
  /\ \E w \in PrefilledWindows :
       /\ responseTimes = w
       /\ metrics = [FreshMetrics EXCEPT
                       !.requests.total = Len(w),
                       !.requests.successful = Len(w),
                       !.requests.averageResponseTime = <<Sum(w), Len(w)>>]
       /\ monCall = [op |-> "recordRequest", arg |-> w[Len(w)], ret |-> Null,
                     dropped |-> 0]

\* Samples recorded after a prefilled run and after a reset.
MaxWindowSamples == 2

\* The window's operations.
NextWindow ==
  \/ (\E responseTime \in 0..MaxLatency, success \in BOOLEAN :
        /\ \E w \in PrefilledWindows \cup {<<>>} :
             metrics.requests.total - Len(w) \in 0..(MaxWindowSamples - 1)
        /\ PerformanceMonitor_recordRequest(responseTime, success)
        /\ UNCHANGED <<now, poolVars, cacheVars, batVars, wrapVars, healthVars>>)
  \/ (PerformanceMonitor_getMetrics
        /\ UNCHANGED <<now, poolVars, cacheVars, batVars, wrapVars, healthVars>>)
  \/ (PerformanceMonitor_reset
        /\ UNCHANGED <<now, poolVars, cacheVars, batVars, wrapVars, healthVars>>)

SpecWindow == InitWindow /\ [][NextWindow]_vars

\* initializePerformance has run: the wrapper finds the global cache and the
\* global monitor.
InitWrapper ==
  /\ now = 0
  /\ ConnectionPool_constructor(SubSeq(EndpointNames, 1, 1), 1)
  /\ Cache_constructor(MaxCacheSize, MaxTTL)
  /\ RequestBatcher_constructor(1, 1)
  /\ PerformanceMonitor_constructor
  /\ calls = <<>>
  /\ HealthChecker_constructor

NextWrapper ==
  \/ (Tick(MaxTime) /\ UNCHANGED <<poolVars, cacheVars, batVars, monVars, wrapVars, healthVars>>)
  \/ (\E options \in WrapperOptions :
        /\ Len(calls) < MaxCalls
        /\ WrapperCall(options)
        /\ UNCHANGED <<now, poolVars, batVars, healthVars>>)
  \/ (\E c \in DOMAIN calls, result \in Values :
        WrapperFnReturns(c, result) /\ UNCHANGED <<now, poolVars, batVars, healthVars>>)
  \/ (\E c \in DOMAIN calls, error \in FnErrors :
        WrapperFnThrows(c, error) /\ UNCHANGED <<now, poolVars, batVars, healthVars>>)

SpecWrapper == InitWrapper /\ [][NextWrapper]_vars

\* Invocations of wrapped functions in a run of the whole layer.
MaxCoreCalls == 1

\* The batcher and the wrapper in one program.  They share no state but the
\* clock, so a run follows one of them: the batcher while no wrapped
\* function has been called, the wrapper while nothing has been batched.
NextCore ==
  \/ (BatcherTick /\ UNCHANGED <<poolVars, cacheVars, batVars, monVars, wrapVars, healthVars>>)
  \/ (\E kind \in OperationKinds :
        /\ calls = <<>>
        /\ Len(requests) < MaxRequests
        /\ RequestBatcher_addRequest(kind)
        /\ UNCHANGED <<now, poolVars, cacheVars, monVars, wrapVars, healthVars>>)
  \/ (\E t \in timers : TimerFires(t) /\ UNCHANGED <<now, poolVars, cacheVars, monVars, wrapVars, healthVars>>)
  \/ (\E i \in DOMAIN requests :
        SettleOperation(i) /\ UNCHANGED <<now, poolVars, cacheVars, monVars, wrapVars, healthVars>>)
  \/ (\E b \in DOMAIN batches :
        ResumeBatch(b) /\ UNCHANGED <<now, poolVars, cacheVars, monVars, wrapVars, healthVars>>)
  \/ (\E options \in WrapperOptions :
        /\ requests = <<>>
        /\ Len(calls) < MaxCoreCalls
        /\ WrapperCall(options)
        /\ UNCHANGED <<now, poolVars, batVars, healthVars>>)
  \/ (\E c \in DOMAIN calls, result \in Values :
        WrapperFnReturns(c, result) /\ UNCHANGED <<now, poolVars, batVars, healthVars>>)
  \/ (\E c \in DOMAIN calls, error \in FnErrors :
        WrapperFnThrows(c, error) /\ UNCHANGED <<now, poolVars, batVars, healthVars>>)

SpecCore == InitBatcher /\ [][NextCore]_vars

InitHealth ==
  /\ now = 0
  /\ ConnectionPool_constructor(SubSeq(EndpointNames, 1, 1), 1)
  /\ Cache_constructor(MaxCacheSize, MaxTTL)
  /\ RequestBatcher_constructor(1, 1)
  /\ PerformanceMonitor_constructor
  /\ calls = <<>>
  /\ HealthChecker_constructor

\* Each name is registered once, up to the bound; runAllChecks is called while the
\* invocations it makes stay within the bound.
NextHealth ==
  \/ (HealthTick /\ UNCHANGED <<poolVars, cacheVars, batVars, monVars, wrapVars, healthVars>>)
  \/ (\E name \in CheckNames, fn \in CheckKinds,
         timeout \in 1..MaxCheckTimeout, critical \in BOOLEAN :
        /\ ~MapHas(checks, name)
        /\ Len(checks) < MaxChecks
        /\ HealthChecker_addCheck(name, fn, timeout, critical)
        /\ UNCHANGED <<now, poolVars, cacheVars, batVars, monVars, wrapVars>>)
  \/ (\E name \in CheckNames :
        /\ Len(runs) < MaxCheckRuns
        /\ HealthChecker_runCheck(name)
        /\ UNCHANGED <<now, poolVars, cacheVars, batVars, monVars, wrapVars>>)
  \/ (/\ Len(sweeps) < MaxSweeps
      /\ Len(runs) + Len(checks) <= MaxCheckRuns
      /\ HealthChecker_runAllChecks
      /\ UNCHANGED <<now, poolVars, cacheVars, batVars, monVars, wrapVars>>)
  \/ (\E r \in DOMAIN runs :
        CheckSettles(r) /\ UNCHANGED <<now, poolVars, cacheVars, batVars, monVars, wrapVars>>)
  \/ (\E r \in DOMAIN runs :
        CheckTimerFires(r) /\ UNCHANGED <<now, poolVars, cacheVars, batVars, monVars, wrapVars>>)

SpecHealth == InitHealth /\ [][NextHealth]_vars


-----------------------------------------------------------------------------
(* Claims *)

-----------------------------------------------------------------------------
(* C7: once markUnhealthy(c) has been called, no later getConnection       *)
(* returns c, whatever get / release / markUnhealthy calls follow.          *)
C7_UnhealthyIsTerminal ==
  (poolCall.op = "getConnection" /\ poolCall.ret # Null)
    => poolCall.ret \notin markedUnhealthy

\* A connection is handed out after a marked connection was released again.
C7_Witness ==
  /\ poolCall.op = "getConnection"
  /\ poolCall.ret # Null
  /\ releasedUnhealthy # {}
  /\ \E c \in markedUnhealthy : c \notin releasedUnhealthy

(* C8: every healthy connection is in exactly one of the available list    *)
(* and the busy set (once), every unhealthy connection is in neither.       *)
C8_PoolPartition ==
  /\ Range(availableConnections) \cup busyConnections \subseteq DOMAIN connections
  /\ \A c \in DOMAIN connections :
       LET places == Occurrences(availableConnections, c)
                     + (IF c \in busyConnections THEN 1 ELSE 0)
       IN IF connections[c].isHealthy THEN places = 1 ELSE places = 0

\* Healthy-available, healthy-busy and unhealthy connections side by side.
C8_Witness ==
  /\ \E c \in DOMAIN connections :
       connections[c].isHealthy /\ c \in busyConnections
  /\ \E c \in DOMAIN connections :
       connections[c].isHealthy /\ c \in Range(availableConnections)
  /\ \E c \in DOMAIN connections : ~connections[c].isHealthy
  /\ releasedUnhealthy # {}

(* C2: immediately after any set call returns, the cache holds at most     *)
(* maxSize entries.                                                         *)
C2_CapacityBound ==
  cacheCall.op = "set" => Len(cache) <= maxSize

(* C3: a set of a key not yet present on a cache holding maxSize entries    *)
(* removes exactly one existing entry, one whose last-access time is        *)
(* minimal among the entries held before the call.                          *)
C3_EvictsOneLeastRecent ==
  [][\A key \in CacheKeys, value \in Values, ttl \in TTLs :
       (/\ Cache_set(key, value, ttl)
        /\ ~MapHas(cache, key)
        /\ Len(cache) = maxSize)
       => LET removed == MapKeys(cache) \ MapKeys(cache')
          IN /\ Cardinality(removed) = 1
             /\ \A r \in removed, k \in MapKeys(cache) :
                  MapGet(accessTimes, r) <= MapGet(accessTimes, k)]_vars

(* C1: every settled future carries its own operation's outcome: it is      *)
(* rejected only when its own operation failed, with that operation's       *)
(* error, and resolved only when its own operation succeeded, with that     *)
(* operation's result, however the siblings of its batch fail.              *)
C1_PerItemIsolation ==
  \A i \in DOMAIN requests :
    /\ requests[i].future = "rejected"
         => (requests[i].kind \in {"reject", "throw"}
             /\ requests[i].value = OpError(i))
    /\ requests[i].future = "resolved"
         => (requests[i].kind = "fulfil" /\ requests[i].value = OpResult(i))

(* C9: the addRequest call that brings the pending count to batchSize       *)
(* flushes inside that call: the batchSize pending operations are taken     *)
(* and invoked with no timer firing, and the queue is empty afterwards.     *)
C9_SizeTriggeredFlush ==
  (batCall.op = "addRequest" /\ batCall.pushed = batchSize)
    => /\ batCall.batch # 0
       /\ pendingRequests = <<>>
       /\ batches[batCall.batch].by = "size"
       /\ Len(batches[batCall.batch].items) = batchSize
       /\ \A j \in DOMAIN batches[batCall.batch].items :
            requests[batches[batCall.batch].items[j]].op # "skipped"

(* C10: fewer than batchSize pending requests are flushed exactly           *)
(* batchTimeout after the first of them was enqueued: that request armed    *)
(* the one timer, later requests left it as it was, and its firing takes    *)
(* every pending request.                                                   *)
C10_TimeTriggeredFlush ==
  /\ pendingRequests # <<>> =>
       /\ Len(pendingRequests) < batchSize
       /\ timers = {[id |-> batchTimer,
                     due |-> requests[pendingRequests[1]].enqueuedAt
                             + batchTimeout]}
       /\ batchTimer = pendingRequests[1]
  /\ \A b \in DOMAIN batches :
       batches[b].by = "timer" =>
         batches[b].at = requests[batches[b].items[1]].enqueuedAt + batchTimeout
  /\ (batCall.op = "timer" /\ batCall.pushed > 0) =>
       /\ pendingRequests = <<>>
       /\ Len(batches[batCall.batch].items) = batCall.pushed

\* A timer flush of two requests enqueued at different times.
C10_Witness ==
  \E b \in DOMAIN batches :
    /\ batches[b].by = "timer"
    /\ Len(batches[b].items) >= 2
    /\ requests[batches[b].items[2]].enqueuedAt
         > requests[batches[b].items[1]].enqueuedAt

(* C4: a wrapped function called with caching enabled and a cache key for   *)
(* which the cache holds an unexpired entry records exactly one cache hit,  *)
(* returns the stored value and does not invoke the underlying operation,   *)
(* whatever the stored value is.                                            *)
C4_CacheHitPath ==
  [][\A options \in WrapperOptions :
       (/\ WrapperCall(options)
        /\ Caching(options)
        /\ MapHas(cache, options.cacheKey)
        /\ now <= MapGet(expirationTimes, options.cacheKey))
       => /\ metrics'.cache.hits = metrics.cache.hits + 1
          /\ metrics'.cache.misses = metrics.cache.misses
          /\ calls'[Len(calls')].pc = "returned"
          /\ calls'[Len(calls')].ret = MapGet(cache, options.cacheKey)
          /\ calls'[Len(calls')].invoked = 0]_vars

(* C5: a wrapper invocation that returns a cached value leaves the          *)
(* monitor's request counters and its rolling window unchanged.             *)
C5_NoSampleOnHit ==
  [][\A options \in WrapperOptions :
       (WrapperCall(options) /\ calls'[Len(calls')].hit)
       => /\ metrics'.requests = metrics.requests
          /\ responseTimes' = responseTimes]_vars

(* C6: on an empty rolling window getMetrics reports min = 0, max = 0,      *)
(* p95 = 0 and p99 = 0.                                                     *)
C6_EmptyWindowDefaults ==
  (monCall.op = "getMetrics" /\ responseTimes = <<>>)
    => /\ monCall.ret.min = 0
       /\ monCall.ret.max = 0
       /\ monCall.ret.p95 = 0
       /\ monCall.ret.p99 = 0

(* C11: a settled future carries the outcome of its own operation and       *)
(* nothing else: the i-th request's future holds the i-th operation's       *)
(* result or error, and no two futures hold the same value.                 *)
C11_OwnResult ==
  /\ \A i \in DOMAIN requests :
       requests[i].future # "pending"
         => requests[i].value = (IF requests[i].kind = "fulfil"
                                 THEN OpResult(i) ELSE OpError(i))
  /\ \A i, j \in DOMAIN requests :
       (i # j /\ requests[i].future # "pending" /\ requests[j].future # "pending")
         => requests[i].value # requests[j].value

(* C12, as amended: at most one flush timer is armed at any time and the    *)
(* handle is held exactly while it is armed; every flush that takes items   *)
(* cancels the armed timer and clears the handle, so an armed timer always  *)
(* belongs to a request that is still pending; and the next request         *)
(* enqueued after a flush arms a fresh timer unless it fills a batch by     *)
(* itself (batchSize = 1), in which case it is flushed at once, untimed.    *)
C12_TimerCancelledOnFlush ==
  /\ [](/\ Cardinality(timers) <= 1
        /\ batchTimer = Null => timers = {}
        /\ batchTimer # Null => \E t \in timers : t.id = batchTimer
        /\ \A t \in timers :
             \E j \in DOMAIN pendingRequests : pendingRequests[j] = t.id
        /\ batCall.batch # 0 => (timers = {} /\ batchTimer = Null))
  /\ [][\A kind \in OperationKinds :
          (RequestBatcher_addRequest(kind) /\ batCall.batch # 0)
          => IF batchSize > 1
             THEN /\ batchTimer' = Len(requests')
                  /\ timers' = {[id |-> batchTimer', due |-> now + batchTimeout]}
             ELSE /\ batchTimer' = Null
                  /\ timers' = {}
                  /\ pendingRequests' = <<>>]_vars

\* A size flush cancelled the timer its first request had armed, and the
\* request enqueued after that flush armed a timer of its own.
C12_Witness ==
  /\ batCall.op = "addRequest"
  /\ \E b \in DOMAIN batches :
       /\ batches[b].by = "size"
       /\ Len(batches[b].items) >= 2
       /\ batchTimer > batches[b].items[Len(batches[b].items)]
  /\ timers = {[id |-> batchTimer, due |-> now + batchTimeout]}
  /\ pendingRequests = <<batchTimer>>

(* C12, as stated: the same, with the next request enqueued after any       *)
(* flush always arming a fresh timer.                                       *)
C12_NextRequestArms ==
  /\ [](/\ Cardinality(timers) <= 1
        /\ batchTimer = Null => timers = {}
        /\ batchTimer # Null => \E t \in timers : t.id = batchTimer
        /\ \A t \in timers :
             \E j \in DOMAIN pendingRequests : pendingRequests[j] = t.id
        /\ batCall.batch # 0 => (timers = {} /\ batchTimer = Null))
  /\ [][\A kind \in OperationKinds :
          (RequestBatcher_addRequest(kind) /\ batCall.batch # 0)
          => /\ batchTimer' = Len(requests')
             /\ timers' = {[id |-> batchTimer', due |-> now + batchTimeout]}]_vars

(* C13: every batch a flush takes holds at most batchSize items, and the    *)
(* pending queue holds fewer than batchSize items between calls.            *)
C13_BatchSizeBound ==
  /\ \A b \in DOMAIN batches :
       /\ Len(batches[b].items) >= 1
       /\ Len(batches[b].items) <= batchSize
  /\ Len(pendingRequests) < batchSize

\* A batch of exactly batchSize requests was taken and the queue has filled
\* up again to one below batchSize.
C13_Witness ==
  /\ batchSize >= 2
  /\ batCall.op = "addRequest"
  /\ Len(pendingRequests) = batchSize - 1
  /\ \E b \in DOMAIN batches : Len(batches[b].items) = batchSize

(* C14: set(key, value, ttl) at time t makes the entry expire at t + ttl;   *)
(* a get of a held key later than its expiry returns null and removes the   *)
(* key from all three maps, so the size drops by one, and a get not later   *)
(* than its expiry returns the stored value and removes nothing.            *)
C14_LazyExpiry ==
  [][/\ (cacheCall'.op = "set" /\ now' = now)
          => MapGet(expirationTimes', cacheCall'.key) = now + cacheCall'.ttl
     /\ (cacheCall'.op = "get" /\ now' = now /\ MapHas(cache, cacheCall'.key))
          => IF now > MapGet(expirationTimes, cacheCall'.key)
             THEN /\ cacheCall'.ret = Null
                  /\ ~MapHas(cache', cacheCall'.key)
                  /\ ~MapHas(accessTimes', cacheCall'.key)
                  /\ ~MapHas(expirationTimes', cacheCall'.key)
                  /\ Len(cache') = Len(cache) - 1
             ELSE /\ cacheCall'.ret = MapGet(cache, cacheCall'.key)
                  /\ cache' = cache]_vars

\* A get found its key expired and removed it, other entries staying.
C14_Witness ==
  /\ cacheCall.op = "get"
  /\ cacheCall.expired
  /\ cacheCall.ret = Null
  /\ ~MapHas(cache, cacheCall.key)
  /\ cache # <<>>

(* C15: a get(k) that directly follows set(k, v, ttl), with the clock not   *)
(* beyond the set's time plus ttl, returns v, whether the set inserted k,   *)
(* overwrote it, or found the cache full.                                   *)
C15_ReadYourWrite ==
  [][/\ (cacheCall'.op = "set" /\ now' = now)
          => /\ MapHas(cache', cacheCall'.key)
             /\ MapGet(expirationTimes', cacheCall'.key) = now + cacheCall'.ttl
     /\ (/\ cacheCall.op = "set"
         /\ cacheCall'.op = "get"
         /\ cacheCall'.key = cacheCall.key
         /\ now <= MapGet(expirationTimes, cacheCall.key))
          => cacheCall'.ret = cacheCall.value]_vars

\* A get returned the value a set on a full cache had just written, one
\* full ttl after the set.
C15_Witness ==
  /\ cacheCall.op = "get"
  /\ cacheCall.value # Null
  /\ cacheCall.ret = cacheCall.value
  /\ Len(cache) >= maxSize
  /\ now > 0
  /\ MapGet(expirationTimes, cacheCall.key) = now

(* C16: a get that returns a value sets its key's last-access time to the   *)
(* current time and no other; a get of a missing or expired key refreshes   *)
(* no access time; and whenever set evicts, the entry it removes has a      *)
(* last-access time no later than that of any entry it keeps.               *)
C16_ReadsRefreshRecency ==
  [][/\ (cacheCall'.op = "get" /\ now' = now)
          => IF /\ MapHas(cache, cacheCall'.key)
                /\ now <= MapGet(expirationTimes, cacheCall'.key)
             THEN /\ MapKeys(accessTimes') = MapKeys(accessTimes)
                  /\ MapGet(accessTimes', cacheCall'.key) = now
                  /\ \A k \in MapKeys(accessTimes) \ {cacheCall'.key} :
                       MapGet(accessTimes', k) = MapGet(accessTimes, k)
             ELSE \A k \in MapKeys(accessTimes') :
                    /\ MapHas(accessTimes, k)
                    /\ MapGet(accessTimes', k) = MapGet(accessTimes, k)
     /\ (cacheCall'.op = "set" /\ now' = now)
          => \A r \in MapKeys(cache) \ MapKeys(cache'),
                k \in MapKeys(cache) \cap MapKeys(cache') :
               MapGet(accessTimes, r) <= MapGet(accessTimes, k)]_vars

\* On a full cache a get has just made its key more recent than another
\* entry: the next eviction has to choose between them.
C16_Witness ==
  /\ cacheCall.op = "get"
  /\ cacheCall.ret # Null
  /\ Len(cache) >= maxSize
  /\ MapGet(accessTimes, cacheCall.key) = now
  /\ \E k \in MapKeys(cache) \ {cacheCall.key} :
       /\ MapGet(accessTimes, k) < now
       /\ TruthyKey(k)

(* C17: when the underlying operation of a wrapper call fails, the call     *)
(* fails with that same error, the three maps of the Cache stay as they     *)
(* are, and the monitor gains exactly one sample, a failed one: total and   *)
(* failed go up by one, successful and the cache counters do not move.      *)
C17_WrapperFailurePath ==
  [][\A c \in DOMAIN calls, error \in FnErrors :
       WrapperFnThrows(c, error)
       => /\ calls'[c].pc = "threw"
          /\ calls'[c].error = error
          /\ \A d \in DOMAIN calls \ {c} : calls'[d] = calls[d]
          /\ cache' = cache
          /\ accessTimes' = accessTimes
          /\ expirationTimes' = expirationTimes
          /\ metrics'.requests.total = metrics.requests.total + 1
          /\ metrics'.requests.failed = metrics.requests.failed + 1
          /\ metrics'.requests.successful = metrics.requests.successful
          /\ metrics'.cache = metrics.cache
          /\ Len(responseTimes') = Len(responseTimes) + 1]_vars

\* A call with caching enabled failed while the cache held an entry under
\* its key, stored by an earlier call.
C17_Witness ==
  \E c \in DOMAIN calls :
    /\ calls[c].pc = "threw"
    /\ calls[c].error \in FnErrors
    /\ calls[c].options.enableCaching
    /\ calls[c].options.cacheKey # NoKey
    /\ MapHas(cache, calls[c].options.cacheKey)
    /\ metrics.requests.failed >= 1

(* C18: when the underlying operation of a wrapper call succeeds, the call  *)
(* returns its result and the monitor gains exactly one successful sample;  *)
(* with caching enabled and a cache key the result is stored under the key  *)
(* with expiry now + cacheTTL, and otherwise the Cache stays as it is.      *)
C18_WrapperSuccessPath ==
  [][\A c \in DOMAIN calls, result \in Values :
       WrapperFnReturns(c, result)
       => /\ calls'[c].pc = "returned"
          /\ calls'[c].ret = result
          /\ metrics'.requests.total = metrics.requests.total + 1
          /\ metrics'.requests.successful = metrics.requests.successful + 1
          /\ metrics'.requests.failed = metrics.requests.failed
          /\ Len(responseTimes') = Len(responseTimes) + 1
          /\ IF calls[c].options.enableCaching
                /\ calls[c].options.cacheKey # NoKey
             THEN /\ MapHas(cache', calls[c].options.cacheKey)
                  /\ MapGet(cache', calls[c].options.cacheKey) = result
                  /\ MapGet(expirationTimes', calls[c].options.cacheKey)
                       = now + calls[c].options.cacheTTL
             ELSE /\ cache' = cache
                  /\ accessTimes' = accessTimes
                  /\ expirationTimes' = expirationTimes]_vars

\* A call that missed has returned after a clock step and the cache holds
\* its result under its key, expiring one cacheTTL from now.
C18_Witness ==
  \E c \in DOMAIN calls :
    /\ calls[c].pc = "returned"
    /\ ~calls[c].hit
    /\ calls[c].options.enableCaching
    /\ calls[c].startTime < now
    /\ MapHas(cache, calls[c].options.cacheKey)
    /\ MapGet(cache, calls[c].options.cacheKey) = calls[c].ret
    /\ MapGet(expirationTimes, calls[c].options.cacheKey)
         = now + calls[c].options.cacheTTL

(* C19: every wrapper call that does not return a cached value, caching     *)
(* disabled, key absent or key expired, records exactly one cache miss and  *)
(* invokes the underlying operation exactly once.                           *)
C19_WrapperMissPath ==
  [][\A options \in WrapperOptions :
       (WrapperCall(options) /\ ~calls'[Len(calls')].hit)
       => /\ metrics'.cache.misses = metrics.cache.misses + 1
          /\ metrics'.cache.hits = metrics.cache.hits
          /\ calls'[Len(calls')].invoked = 1]_vars

C21_ReleaseFrame ==
  [][(poolCall'.op = "releaseConnection" /\ now' = now)
     => /\ connections' = connections
        /\ IF poolCall'.arg \in busyConnections
           THEN /\ busyConnections' = busyConnections \ {poolCall'.arg}
                /\ Cardinality(busyConnections') = Cardinality(busyConnections) - 1
                /\ availableConnections'
                     = Append(availableConnections, poolCall'.arg)
           ELSE /\ busyConnections' = busyConnections
                /\ availableConnections' = availableConnections]_vars

\* A busy connection was released while another stays busy and a third one
\* was available already.
C21_Witness ==
  /\ poolCall.op = "releaseConnection"
  /\ Len(availableConnections) >= 2
  /\ availableConnections[Len(availableConnections)] = poolCall.arg
  /\ busyConnections # {}

(* C22: right after initialize on a newly constructed pool there are        *)
(* exactly min(maxConnections, |endpoints|) connections, the i-th (from 0)  *)
(* has id i and endpoint endpoints[i mod |endpoints|], all are healthy,     *)
(* all are available in order and none is busy.                             *)
C22_PoolInitialization ==
  poolCall.op = "initialize"
    => /\ Len(connections) = Min(maxConnections, Len(endpoints))
       /\ \A k \in DOMAIN connections :
            /\ connections[k].id = k - 1
            /\ connections[k].endpoint
                 = endpoints[((k - 1) % Len(endpoints)) + 1]
            /\ connections[k].isHealthy
            /\ connections[k].requestCount = 0
       /\ availableConnections = [k \in DOMAIN connections |-> k]
       /\ busyConnections = {}

\* Three endpoints and maxConnections = 2: two connections.
C22_Witness ==
  /\ poolCall.op = "initialize"
  /\ Len(endpoints) = 3
  /\ maxConnections = 2
  /\ Len(connections) = 2

(* C30: in every state after initialize the statistics getStats reports     *)
(* satisfy total = available + busy + unhealthy, a getStats call returns    *)
(* them, and the call changes nothing of the pool.                          *)
C30_StatsConsistent ==
  /\ [](Len(connections) > 0
          => ConnectionPool_getStats.totalConnections
               = ConnectionPool_getStats.availableConnections
                 + ConnectionPool_getStats.busyConnections
                 + ConnectionPool_getStats.unhealthyConnections)
  /\ []((poolCall.op = "getStats" /\ Len(connections) > 0)
          => poolCall.ret.totalConnections
               = poolCall.ret.availableConnections
                 + poolCall.ret.busyConnections
                 + poolCall.ret.unhealthyConnections)
  /\ [][(poolCall'.op = "getStats" /\ now' = now)
        => /\ connections' = connections
           /\ availableConnections' = availableConnections
           /\ busyConnections' = busyConnections
           /\ endpoints' = endpoints
           /\ maxConnections' = maxConnections]_vars

\* getStats on a pool with an available, a busy and an unhealthy connection.
C30_Witness ==
  /\ poolCall.op = "getStats"
  /\ poolCall.ret.availableConnections >= 1
  /\ poolCall.ret.busyConnections >= 1
  /\ poolCall.ret.unhealthyConnections >= 1

(* C23: the monitor's cache hitRate is the ratio hits / (hits + misses),    *)
(* a number between 0 and 1 with hitRate * (hits + misses) = hits, and it   *)
(* is 0 while neither a hit nor a miss has been recorded.                   *)
C23_HitRateFormula ==
  LET hits == metrics.cache.hits
      total == metrics.cache.hits + metrics.cache.misses
      hitRate == metrics.cache.hitRate
  IN IF total = 0
     THEN SameNumber(hitRate, Zero)
     ELSE /\ hitRate[1] * total = hits * hitRate[2]
          /\ 0 <= hitRate[1]
          /\ hitRate[1] <= hitRate[2]

(* C24: on a non-empty window of n samples getMetrics reports the smallest  *)
(* sample as min, the largest as max, and as p95 / p99 the element at       *)
(* index ceil(p / 100 * n) - 1, an index within 0..n-1, of the window in    *)
(* ascending order; average is the stored mean.  For the samples            *)
(* 10, 20, 30, 40, 50 it reports p95 = 50 and average = 30.                 *)
C24_PercentileIndexing ==
  (monCall.op = "getMetrics" /\ responseTimes # <<>>)
    => LET w == responseTimes
           n == Len(w)
           Below(v) == Cardinality({i \in DOMAIN w : w[i] < v})
           UpTo(v) == Cardinality({i \in DOMAIN w : w[i] <= v})
           AtPercentile(v, p) ==
             \E index \in 0..(n - 1) :
               /\ 100 * (index + 1) >= p * n
               /\ 100 * index < p * n
               /\ Below(v) <= index
               /\ index < UpTo(v)
       IN /\ monCall.ret.min \in Range(w)
          /\ \A i \in DOMAIN w : monCall.ret.min <= w[i]
          /\ monCall.ret.max \in Range(w)
          /\ \A i \in DOMAIN w : monCall.ret.max >= w[i]
          /\ AtPercentile(monCall.ret.p95, 95)
          /\ AtPercentile(monCall.ret.p99, 99)
          /\ SameNumber(monCall.ret.average, <<Sum(w), n>>)
          /\ w = <<10, 20, 30, 40, 50>>
               => /\ monCall.ret.p95 = 50
                  /\ SameNumber(monCall.ret.average, <<30, 1>>)

\* getMetrics on a full window whose p95, p99 and max are three different
\* samples.
C24_Witness ==
  /\ monCall.op = "getMetrics"
  /\ Len(responseTimes) = maxResponseTimeHistory
  /\ monCall.ret.min < monCall.ret.p95
  /\ monCall.ret.p95 < monCall.ret.p99
  /\ monCall.ret.p99 < monCall.ret.max

(* C25: after n recordRequest calls since construction or the last reset    *)
(* the window holds min(n, maxResponseTimeHistory) samples, never more      *)
(* than 100; every recordRequest appends its latency at the end, and one    *)
(* made on a full window removes exactly the oldest sample.                 *)
C25_RollingWindowFIFO ==
  /\ [](/\ Len(responseTimes)
             = Min(metrics.requests.total, maxResponseTimeHistory)
        /\ Len(responseTimes) <= 100)
  /\ [][(monCall'.op = "recordRequest" /\ metrics' # metrics)
        => responseTimes'
             = IF Len(responseTimes) < maxResponseTimeHistory
               THEN Append(responseTimes, monCall'.arg)
               ELSE Append(Tail(responseTimes), monCall'.arg)]_vars

\* Two samples in a row were recorded on a full window.
C25_Witness ==
  /\ monCall.op = "recordRequest"
  /\ monCall.dropped = 1
  /\ metrics.requests.total = maxResponseTimeHistory + 2
  /\ Len(responseTimes) = maxResponseTimeHistory
  /\ responseTimes[Len(responseTimes)] = monCall.arg

(* C26: after every recordRequest averageResponseTime is the sum of the     *)
(* samples in the window divided by their number.                           *)
C26_WindowedMean ==
  monCall.op = "recordRequest"
    => SameNumber(metrics.requests.averageResponseTime,
                  <<Sum(responseTimes), Len(responseTimes)>>)

\* The largest sample has left a full window: the mean is that of the
\* window, below the mean of all samples recorded.
C26_Witness ==
  /\ monCall.op = "recordRequest"
  /\ monCall.dropped = 1
  /\ metrics.requests.total = maxResponseTimeHistory + 1
  /\ responseTimes[1] = 5
  /\ metrics.requests.averageResponseTime[1] * metrics.requests.total
       < (Sum(responseTimes) + 6) * metrics.requests.averageResponseTime[2]

(* C27: after reset every request counter, the cache hit and miss counters  *)
(* and the hit rate, the connection counters and averageResponseTime are    *)
(* 0 and the window is empty: the monitor is in the state its constructor   *)
(* leaves it in.                                                            *)
C27_ResetRestoresInitial ==
  monCall.op = "reset"
    => /\ metrics.requests.total = 0
       /\ metrics.requests.successful = 0
       /\ metrics.requests.failed = 0
       /\ SameNumber(metrics.requests.averageResponseTime, <<0, 1>>)
       /\ metrics.cache.hits = 0
       /\ metrics.cache.misses = 0
       /\ SameNumber(metrics.cache.hitRate, <<0, 1>>)
       /\ metrics.connections.active = 0
       /\ metrics.connections.total = 0
       /\ metrics.connections.errors = 0
       /\ responseTimes = <<>>
       /\ metrics = FreshMetrics

\* A reset that removed samples from the window.
C27_Witness ==
  /\ monCall.op = "reset"
  /\ monCall.dropped >= 2
  /\ responseTimes = <<>>

(* C28: delete(k) removes k and nothing else from the entries, the access   *)
(* times and the expiry times, and changes nothing when k is missing;       *)
(* clear removes everything and changes nothing on an empty cache; a second *)
(* delete(k) or clear would change nothing more; afterwards get of a        *)
(* removed key finds nothing; both can be called in every state.            *)
C28_DeleteClearIdempotent ==
  /\ [](/\ \A key \in CacheKeys :
             ENABLED (Cache_delete(key)
                       /\ UNCHANGED <<now, poolVars, batVars, monVars, wrapVars, healthVars>>)
        /\ ENABLED (Cache_clear
                     /\ UNCHANGED <<now, poolVars, batVars, monVars, wrapVars, healthVars>>))
  /\ [][/\ \A k \in CacheKeys :
           (cacheCall'.op = "delete" /\ cacheCall'.key = k /\ now' = now)
           => LET Others(m) == SelectSeq(m, LAMBDA e : e[1] # k)
              IN /\ cache' = Others(cache)
                 /\ accessTimes' = Others(accessTimes)
                 /\ expirationTimes' = Others(expirationTimes)
                 /\ (k \notin MapKeys(cache) \cup MapKeys(accessTimes)
                                      \cup MapKeys(expirationTimes))
                      => /\ cache' = cache
                         /\ accessTimes' = accessTimes
                         /\ expirationTimes' = expirationTimes
                 /\ Others(cache') = cache'
                 /\ Others(accessTimes') = accessTimes'
                 /\ Others(expirationTimes') = expirationTimes'
                 /\ CacheGetResult(k)' = Null
        /\ (cacheCall'.op = "clear" /\ now' = now)
           => /\ cache' = <<>>
              /\ accessTimes' = <<>>
              /\ expirationTimes' = <<>>
              /\ (cache = <<>> /\ accessTimes = <<>> /\ expirationTimes = <<>>)
                   => /\ cache' = cache
                      /\ accessTimes' = accessTimes
                      /\ expirationTimes' = expirationTimes
              /\ \A key \in CacheKeys : CacheGetResult(key)' = Null]_vars

\* delete removed an entry that was present and left another one in place.
C28_Witness ==
  /\ cacheCall.op = "delete"
  /\ cacheCall.value # Null
  /\ cache # <<>>
  /\ ~MapHas(cache, cacheCall.key)
  /\ MapKeys(accessTimes) = MapKeys(cache)
  /\ MapKeys(expirationTimes) = MapKeys(cache)

(* C29: the batcher settles a future only with its operation's outcome: a   *)
(* future is resolved or rejected only once its own operation has           *)
(* fulfilled, rejected or thrown, so the future of an operation that never  *)
(* settles stays pending, whatever time passes and whatever is flushed.     *)
C29_NoPerItemTimeout ==
  \A i \in DOMAIN requests :
    requests[i].future # "pending"
      => requests[i].op \in {"fulfilled", "rejected", "threw"}

(* C40: in every state of the monitor requests.total is the sum of          *)
(* requests.successful and requests.failed and the window holds             *)
(* min(requests.total, maxResponseTimeHistory) samples; every recordRequest *)
(* adds one to total and to exactly one of successful and failed, reset     *)
(* puts the three at 0, and nothing else changes them, so total is the      *)
(* number of recordRequest calls since construction or the last reset.      *)
C40_RequestCountersConsistent ==
  /\ [](/\ metrics.requests.total
             = metrics.requests.successful + metrics.requests.failed
        /\ metrics.requests.successful >= 0
        /\ metrics.requests.failed >= 0
        /\ Len(responseTimes)
             = Min(metrics.requests.total, maxResponseTimeHistory))
  /\ [][LET before == metrics.requests
            after == metrics'.requests
        IN IF monCall'.op = "recordRequest" /\ metrics' # metrics
           THEN /\ after.total = before.total + 1
                /\ \/ /\ after.successful = before.successful + 1
                      /\ after.failed = before.failed
                   \/ /\ after.successful = before.successful
                      /\ after.failed = before.failed + 1
           ELSE IF monCall'.op = "reset"
           THEN after.total = 0 /\ after.successful = 0 /\ after.failed = 0
           ELSE /\ after.total = before.total
                /\ after.successful = before.successful
                /\ after.failed = before.failed]_vars

\* A failed request was recorded on a full window that already held
\* successful ones.
C40_Witness ==
  /\ monCall.op = "recordRequest"
  /\ metrics.requests.failed = 1
  /\ metrics.requests.successful = maxResponseTimeHistory
  /\ metrics.requests.total = maxResponseTimeHistory + 1
  /\ Len(responseTimes) = maxResponseTimeHistory

(* C37: after any sequence of pool operations, initialize called again on   *)
(* an initialized pool included, the pool holds at most                     *)
(* min(maxConnections, number of endpoints) connections and no two of them  *)
(* have the same id.                                                        *)
C37_FixedPoolSize ==
  /\ Len(connections) <= Min(maxConnections, Len(endpoints))
  /\ \A i, j \in DOMAIN connections :
       i # j => connections[i].id # connections[j].id

(* C36: every connection getConnection returns is healthy and was not busy  *)
(* when the call was made; the call makes it busy and takes it off the      *)
(* available list, and no busy connection is on the available list, so it   *)
(* is not returned again before it is released.                             *)
C36_ExclusiveHandOut ==
  /\ [](\A c \in busyConnections : Occurrences(availableConnections, c) = 0)
  /\ [][(poolCall'.op = "getConnection" /\ poolCall'.ret # Null /\ now' = now)
        => /\ poolCall'.ret \in DOMAIN connections
           /\ connections[poolCall'.ret].isHealthy
           /\ connections'[poolCall'.ret].isHealthy
           /\ poolCall'.ret \notin busyConnections
           /\ poolCall'.ret \in busyConnections'
           /\ Occurrences(availableConnections', poolCall'.ret) = 0]_vars

\* getConnection handed out a connection of a pool that was initialized
\* twice, while another connection is busy and one has been marked.
C36_Witness ==
  /\ poolCall.op = "getConnection"
  /\ poolCall.ret # Null
  /\ Len(connections) > Min(maxConnections, Len(endpoints))
  /\ Cardinality(busyConnections) >= 2
  /\ markedUnhealthy # {}

(* C35: set(k, v) for a key k the cache already holds replaces k's value,   *)
(* expiry and access time and removes no other key, also on a cache that    *)
(* holds maxSize entries: the keys held are the same before and after.      *)
C35_OverwriteDoesNotEvict ==
  [][(cacheCall'.op = "set" /\ now' = now /\ MapHas(cache, cacheCall'.key))
       => /\ MapKeys(cache') = MapKeys(cache)
          /\ MapGet(cache', cacheCall'.key) = cacheCall'.value
          /\ MapGet(accessTimes', cacheCall'.key) = now
          /\ MapGet(expirationTimes', cacheCall'.key) = now + cacheCall'.ttl
          /\ \A k \in MapKeys(cache) \ {cacheCall'.key} :
               /\ MapHas(cache', k)
               /\ MapGet(cache', k) = MapGet(cache, k)]_vars

(* C38: set removes no entry for being expired: it removes at most one      *)
(* entry, only when the cache, expired entries counted, holds maxSize       *)
(* entries, and that entry has the least access time of all entries held,   *)
(* expired or not; apart from that eviction an entry leaves the cache only  *)
(* by a get of its key that finds it expired, by delete of its key or by    *)
(* clear, and never by the passing of time.                                 *)
C38_ExpiryAndEvictionIndependent ==
  [][LET removed == MapKeys(cache) \ MapKeys(cache')
     IN /\ now' # now => removed = {}
        /\ (cacheCall'.op = "set" /\ now' = now)
             => /\ Cardinality(removed) <= 1
                /\ Len(cache) < maxSize => removed = {}
                /\ \A r \in removed, k \in MapKeys(cache) :
                     MapGet(accessTimes, r) <= MapGet(accessTimes, k)
        /\ (cacheCall'.op = "get" /\ now' = now)
             => /\ removed \subseteq {cacheCall'.key}
                /\ \A r \in removed : now > MapGet(expirationTimes, r)
        /\ (cacheCall'.op = "delete" /\ now' = now)
             => removed \subseteq {cacheCall'.key}]_vars

\* A set on a full cache has evicted an entry that had not expired, and an
\* expired entry that no get has read is still held.
C38_Witness ==
  /\ cacheCall.op = "set"
  /\ cacheCall.expired
  /\ Len(cache) = maxSize
  /\ \E k \in MapKeys(cache) \ {cacheCall.key} :
       now > MapGet(expirationTimes, k)

(* C33: a future settles once its own operation has settled, whether or     *)
(* not the other operations of its batch have settled or ever do.           *)
C33_IndependentSettlement ==
  \A i \in 1..MaxRequests :
    (i \in DOMAIN requests /\ requests[i].op \in {"fulfilled", "rejected"})
      ~> (i \in DOMAIN requests /\ requests[i].future # "pending")

(* C34: whenever requests are pending a flush timer is armed, and every     *)
(* request passed to addRequest is eventually taken into a batch and its    *)
(* operation invoked.                                                       *)
C34_NoStrandedRequest ==
  /\ [](pendingRequests # <<>>
         => /\ batchTimer # Null
            /\ \E t \in timers : t.id = batchTimer)
  /\ \A i \in 1..MaxRequests :
       (i \in DOMAIN requests)
         ~> (/\ i \in DOMAIN requests
             /\ requests[i].batch # 0
             /\ requests[i].op \in {"running", "fulfilled", "rejected", "threw"})

(* C31: the operation of a request is invoked at most once: a request is    *)
(* in the pending queue or in one batch, never in two places, whatever the  *)
(* order of addRequest calls, timer firings and flushes; and a call of a    *)
(* wrapped function invokes the function at most once, also when it fails.  *)
C31_NoDuplicateExecution ==
  /\ \A i \in DOMAIN requests :
       /\ requests[i].invoked <= 1
       /\ Occurrences(pendingRequests, i)
            + Cardinality({bj \in (DOMAIN batches) \X (1..Len(requests)) :
                            /\ bj[2] \in DOMAIN batches[bj[1]].items
                            /\ batches[bj[1]].items[bj[2]] = i}) = 1
       /\ Occurrences(pendingRequests, i) = 1 => requests[i].invoked = 0
  /\ \A c \in DOMAIN calls :
       /\ calls[c].invoked <= 1
       /\ calls[c].pc = "threw" => calls[c].invoked = 1

\* Two flushes, one by the timer and one by size, have taken requests, and
\* an operation that was invoked once has failed.
C31_Witness ==
  /\ Len(batches) >= 2
  /\ \E b \in DOMAIN batches : batches[b].by = "timer"
  /\ \E b \in DOMAIN batches : batches[b].by = "size"
  /\ \E i \in DOMAIN requests :
       requests[i].op = "rejected" /\ requests[i].invoked = 1

(* C32: two calls of functions wrapped with the same cache key can both     *)
(* miss and both invoke their operation.  When the two have returned, and   *)
(* no other call was made, the monitor has recorded two misses and two      *)
(* successful samples, the cache holds one entry for the key, within        *)
(* maxSize; and the call that returns last overwrites what the other        *)
(* stored: the entry holds the result of the call that stored last.         *)
C32_CheckThenStoreRace ==
  /\ []((/\ Len(calls) = 2
         /\ calls[1].options.cacheKey = calls[2].options.cacheKey
         /\ \A c \in DOMAIN calls :
              /\ Caching(calls[c].options)
              /\ ~calls[c].hit
              /\ calls[c].pc = "returned")
        => LET k == calls[1].options.cacheKey
           IN
             /\ \A c \in DOMAIN calls : calls[c].invoked = 1
             /\ metrics.cache.misses = 2
             /\ metrics.cache.hits = 0
             /\ metrics.requests.total = 2
             /\ metrics.requests.successful = 2
             /\ Len(responseTimes) = 2
             /\ Cardinality({i \in DOMAIN cache : cache[i][1] = k}) = 1
             /\ Len(cache) <= maxSize
             /\ \E c \in DOMAIN calls : MapGet(cache, k) = calls[c].ret)
  /\ [][\A c, d \in 1..MaxCalls :
         (/\ c \in DOMAIN calls
          /\ d \in DOMAIN calls
          /\ c # d
          /\ Caching(calls[c].options)
          /\ Caching(calls[d].options)
          /\ calls[c].options.cacheKey = calls[d].options.cacheKey
          /\ calls[d].pc = "returned"
          /\ calls[c].pc = "awaiting"
          /\ calls'[c].pc = "returned")
         => /\ MapGet(cache', calls[c].options.cacheKey) = calls'[c].ret
            /\ Cardinality({i \in DOMAIN cache' :
                              cache'[i][1] = calls[c].options.cacheKey}) = 1]_vars

\* Both calls started at the same clock reading and missed although the
\* first one's result is a value a later lookup would have returned: the
\* second started before the first had stored.  The first returned last,
\* and the entry holds its result, not the second's.
C32_Witness ==
  /\ Len(calls) = 2
  /\ \A c \in DOMAIN calls :
       /\ Caching(calls[c].options)
       /\ ~calls[c].hit
       /\ calls[c].invoked = 1
       /\ calls[c].pc = "returned"
  /\ calls[1].startTime = calls[2].startTime
  /\ calls[1].ret = 1
  /\ calls[2].ret = 0
  /\ calls[1].options.cacheKey = calls[2].options.cacheKey
  /\ MapGet(cache, calls[1].options.cacheKey) = 1
  /\ metrics.cache.misses = 2
  /\ metrics.requests.total = 2

-----------------------------------------------------------------------------
(* C39: runCheck bounds a check by racing it against a timer.  A runCheck   *)
(* that is still waiting has an unsettled check and an armed timer that is  *)
(* not overdue; when the timer fires first, runCheck returns status         *)
(* 'unhealthy' with error 'Check timeout' and the check function is left    *)
(* running; once runCheck has returned, its value never changes, and the    *)
(* check's later result or failure, like the timer's later firing after a   *)
(* check that settled first, changes neither that value, nor any            *)
(* runAllChecks in progress, nor the recorded this.status.                  *)
C39_DeadlineByTimerRace ==
  /\ [](\A r \in DOMAIN runs :
          runs[r].pc = "awaiting"
            => /\ runs[r].fn = "running"
               /\ runs[r].timer = "armed"
               /\ now <= runs[r].due)
  /\ [][\A r \in DOMAIN runs :
          /\ (runs[r].pc = "awaiting" /\ runs'[r].timer = "fired")
                => /\ runs'[r].pc = "returned"
                   /\ runs'[r].ret.status = "unhealthy"
                   /\ runs'[r].ret.error = "Check timeout"
                   /\ runs'[r].fn = "running"
          /\ runs[r].pc = "returned"
                => /\ runs'[r].pc = "returned"
                   /\ runs'[r].ret = runs[r].ret
          /\ (/\ runs[r].pc = "returned"
              /\ \/ runs[r].fn = "running" /\ runs'[r].fn # "running"
                 \/ runs[r].timer = "armed" /\ runs'[r].timer = "fired")
                => /\ status' = status
                   /\ sweeps' = sweeps
                   /\ Len(runs') = Len(runs)
                   /\ \A q \in DOMAIN runs :
                        q # r => runs'[q] = runs[q]]_vars

\* runAllChecks has recorded the 'Check timeout' result of a check whose
\* function was fulfilled after runCheck had returned.
C39_Witness ==
  \E r \in DOMAIN runs :
    /\ runs[r].pc = "returned"
    /\ runs[r].ret.error = "Check timeout"
    /\ runs[r].fn = "fulfilled"
    /\ runs[r].sweep # 0
    /\ sweeps[runs[r].sweep].pc = "done"
    /\ status.overall # "unknown"
    /\ MapHas(status.checks, runs[r].name)
    /\ MapGet(status.checks, runs[r].name) = runs[r].ret

=============================================================================
